---- MODULE Spec2Model ----
(***************************************************************************)
(* A model of peerless: the Transmission RPC session protocol, the         *)
(* directory check of pkg/service and the deletion validation of pkg/utils.*)
(*                                                                         *)
(* Three specifications share the module:                                  *)
(*   SpecSession   concurrent callers of the client's authenticated        *)
(*                 request against a daemon that may answer anything;      *)
(*   SpecCheck     TorrentService.CheckDirectories over small file trees;  *)
(*   SpecValidate  utils.ValidateDeletionPaths over small path sets.       *)
(***************************************************************************)
EXTENDS Integers, Sequences, FiniteSets, TLC

(***************************************************************************)
(* Bounds of the model.                                                    *)
(***************************************************************************)
NumCallers == 2
MaxRequests == 2

Callers == 1..NumCallers

(***************************************************************************)
(* The wire: HTTP statuses the daemon may answer (0 stands for a transport *)
(* failure before any response, 418 for "any other status >= 400"), the    *)
(* value of the X-Transmission-Session-Id response header ("" when the     *)
(* header is absent) and the "result" field of the payload.                *)
(***************************************************************************)
Statuses == {0, 200, 401, 403, 404, 409, 418, 500}
Tokens == {"t1", "t2"}
Headers == Tokens \cup {""}
Results == {"success", "error"}

(***************************************************************************)
(* GetSessionID's reading of the handshake response: the error ("" when    *)
(* none) and the token it returns.                                         *)
(***************************************************************************)
HandshakeNo409(status, header) ==
    IF status = 0 THEN [err |-> "transport", token |-> ""]
    ELSE IF status = 401 THEN [err |-> "auth", token |-> ""]
    ELSE IF status = 403 THEN [err |-> "forbidden", token |-> ""]
    ELSE IF status = 404 THEN [err |-> "notfound", token |-> ""]
    ELSE IF status = 500 THEN [err |-> "server", token |-> ""]
    ELSE IF status >= 400 THEN [err |-> "http", token |-> ""]
    ELSE IF header = "" THEN [err |-> "nosession", token |-> ""]
    ELSE [err |-> "", token |-> header]

\* The reading that does not look whether the header is there.
HandshakeNoHeaderCheck(status, header) ==
    IF status = 0 THEN [err |-> "transport", token |-> ""]
    ELSE IF status = 401 THEN [err |-> "auth", token |-> ""]
    ELSE IF status = 403 THEN [err |-> "forbidden", token |-> ""]
    ELSE IF status = 404 THEN [err |-> "notfound", token |-> ""]
    ELSE IF status = 409 THEN [err |-> "", token |-> header]
    ELSE IF status = 500 THEN [err |-> "server", token |-> ""]
    ELSE IF status >= 400 THEN [err |-> "http", token |-> ""]
    ELSE [err |-> "", token |-> header]

ClassifyHandshake(status, header) ==
    IF status = 0 THEN [err |-> "transport", token |-> ""]
    ELSE IF status = 401 THEN [err |-> "auth", token |-> ""]
    ELSE IF status = 403 THEN [err |-> "forbidden", token |-> ""]
    ELSE IF status = 404 THEN [err |-> "notfound", token |-> ""]
    ELSE IF status = 409 THEN
        IF header = "" THEN [err |-> "conflict_noheader", token |-> ""]
        ELSE [err |-> "", token |-> header]
    ELSE IF status = 500 THEN [err |-> "server", token |-> ""]
    ELSE IF status >= 400 THEN [err |-> "http", token |-> ""]
    ELSE IF header = "" THEN [err |-> "nosession", token |-> ""]
    ELSE [err |-> "", token |-> header]

(***************************************************************************)
(* GetTorrents' reading of the authenticated response: the error it        *)
(* returns, "" for a successful item list.                                 *)
(***************************************************************************)
AuthNo409(status, result) ==
    IF status = 0 THEN "transport"
    ELSE IF status = 401 THEN "auth"
    ELSE IF status = 403 THEN "forbidden"
    ELSE IF status = 404 THEN "notfound"
    ELSE IF status = 500 THEN "server"
    ELSE IF status >= 400 THEN "http"
    ELSE IF result # "success" THEN "protocol"
    ELSE ""

\* The reading that takes a server error for a refused token.
AuthConflictOn500(status, result) ==
    IF status = 0 THEN "transport"
    ELSE IF status = 401 THEN "auth"
    ELSE IF status = 403 THEN "forbidden"
    ELSE IF status = 404 THEN "notfound"
    ELSE IF status = 409 \/ status = 500 THEN "conflict"
    ELSE IF status >= 400 THEN "http"
    ELSE IF result # "success" THEN "protocol"
    ELSE ""

\* The reading that does not look at the result field.
AuthIgnoreResult(status, result) ==
    IF status = 0 THEN "transport"
    ELSE IF status = 401 THEN "auth"
    ELSE IF status = 403 THEN "forbidden"
    ELSE IF status = 404 THEN "notfound"
    ELSE IF status = 409 THEN "conflict"
    ELSE IF status = 500 THEN "server"
    ELSE IF status >= 400 THEN "http"
    ELSE ""

ClassifyAuth(status, result) ==
    IF status = 0 THEN "transport"
    ELSE IF status = 401 THEN "auth"
    ELSE IF status = 403 THEN "forbidden"
    ELSE IF status = 404 THEN "notfound"
    ELSE IF status = 409 THEN "conflict"
    ELSE IF status = 500 THEN "server"
    ELSE IF status >= 400 THEN "http"
    ELSE IF result # "success" THEN "protocol"
    ELSE ""


(***************************************************************************)
(* Paths.  A name is a sequence of characters, a path an absolute flag and *)
(* a sequence of names, as path/filepath sees it on a Unix host.           *)
(***************************************************************************)
Str1(a) == <<a>>
Str2(a, b) == <<a, b>>

nData == <<"d", "a", "t", "a">>
nDataOther == <<"d", "a", "t", "a", "-", "o">>
nSub == <<"s", "u", "b">>
nFile == <<"f">>
nHidden == <<".", "h">>
nDot == <<".">>
nDotDot == <<".", ".">>
nEtc == <<"e", "t", "c">>
nWork == <<"w">>

AbsPath(comps) == [abs |-> TRUE, comps |-> comps]
RelPath(comps) == [abs |-> FALSE, comps |-> comps]

\* The working directory of the process.
Cwd == AbsPath(<<nWork>>)

\* filepath.Clean on the components: "." is dropped, ".." removes the
\* component before it (at the root it is dropped, in a relative path with
\* nothing before it, it stays).
RECURSIVE CleanComps(_, _, _)
CleanComps(abs, done, rest) ==
    IF rest = << >> THEN done
    ELSE LET c == Head(rest) IN
         IF c = nDot THEN CleanComps(abs, done, Tail(rest))
         ELSE IF c = nDotDot THEN
             IF done # << >> /\ done[Len(done)] # nDotDot
             THEN CleanComps(abs, SubSeq(done, 1, Len(done) - 1), Tail(rest))
             ELSE IF abs THEN CleanComps(abs, done, Tail(rest))
             ELSE CleanComps(abs, Append(done, c), Tail(rest))
         ELSE CleanComps(abs, Append(done, c), Tail(rest))

Clean(path) == [abs |-> path.abs, comps |-> CleanComps(path.abs, << >>, path.comps)]

\* filepath.Join(dir, name)
Join(dir, name) == Clean([abs |-> dir.abs, comps |-> Append(dir.comps, name)])

\* filepath.Abs
Abs(path) ==
    IF path.abs THEN Clean(path)
    ELSE Clean([abs |-> TRUE, comps |-> Cwd.comps \o path.comps])

\* The length of the common prefix of two component sequences.
RECURSIVE CommonLen(_, _)
CommonLen(a, b) ==
    IF a = << >> \/ b = << >> \/ Head(a) # Head(b) THEN 0
    ELSE 1 + CommonLen(Tail(a), Tail(b))

\* filepath.Rel(base, targ) for two cleaned absolute paths: one ".." for
\* every component of base after the common prefix, then the rest of targ;
\* "." when the two are the same.
Rel(base, targ) ==
    LET k == CommonLen(base.comps, targ.comps)
        ups == [i \in 1..(Len(base.comps) - k) |-> nDotDot]
        down == SubSeq(targ.comps, k + 1, Len(targ.comps))
    IN  IF ups \o down = << >> THEN <<nDot>> ELSE ups \o down

\* The first byte of the string form of a relative path (rel[0]).
FirstByte(rel) == rel[1][1]

(***************************************************************************)
(* utils.isSystemPath.  The three Windows entries of the list are left out: *)
(* on a Unix host filepath.Abs never yields a path that begins with "C:".  *)
(***************************************************************************)
SystemPaths ==
    { AbsPath(<< >>),
      AbsPath(<< <<"b", "i", "n">> >>),
      AbsPath(<< <<"b", "o", "o", "t">> >>),
      AbsPath(<< <<"d", "e", "v">> >>),
      AbsPath(<<nEtc>>),
      AbsPath(<< <<"l", "i", "b">> >>),
      AbsPath(<< <<"l", "i", "b", "6", "4">> >>),
      AbsPath(<< <<"p", "r", "o", "c">> >>),
      AbsPath(<< <<"r", "o", "o", "t">> >>),
      AbsPath(<< <<"s", "b", "i", "n">> >>),
      AbsPath(<< <<"s", "y", "s">> >>),
      AbsPath(<< <<"u", "s", "r">> >>),
      AbsPath(<< <<"v", "a", "r">> >>) }

isSystemPath(path) == Abs(path) \in SystemPaths

(***************************************************************************)
(* utils.ValidateDeletionPaths: the allowed-directory test of one          *)
(* candidate, and the whole validation: the first violation ends it.       *)
(***************************************************************************)
WithinAllowedDir(absPath, allowedDir) ==
    LET rel == Rel(Abs(allowedDir), absPath) IN
    /\ Len(rel) > 0
    /\ FirstByte(rel) # "."

IsAllowed(absPath, allowedDirs) ==
    \E i \in 1..Len(allowedDirs) : WithinAllowedDir(absPath, allowedDirs[i])

\* The denylist consulted only when no allow-list is given.
CheckDeletionPathDenyIfOpen(path, allowedDirs) ==
    LET absPath == Abs(path) IN
    IF Len(allowedDirs) > 0
    THEN IF IsAllowed(absPath, allowedDirs) THEN "" ELSE "outside"
    ELSE IF isSystemPath(absPath) THEN "system"
    ELSE ""

CheckDeletionPath(path, allowedDirs) ==
    LET absPath == Abs(path) IN
    IF Len(allowedDirs) > 0 /\ ~IsAllowed(absPath, allowedDirs)
    THEN "outside"
    ELSE IF isSystemPath(absPath) THEN "system"
    ELSE ""

RECURSIVE ValidateFrom(_, _, _)
ValidateFrom(paths, allowedDirs, i) ==
    IF i > Len(paths) THEN [err |-> "", at |-> 0]
    ELSE LET e == CheckDeletionPath(paths[i], allowedDirs) IN
         IF e # "" THEN [err |-> e, at |-> i]
         ELSE ValidateFrom(paths, allowedDirs, i + 1)

ValidateDeletionPaths(paths, allowedDirs) == ValidateFrom(paths, allowedDirs, 1)

(***************************************************************************)
(* State.  The session manager of one client instance and its callers.     *)
(***************************************************************************)
VARIABLES
    sessionID,      \* the cached session token, "" in NoSession
    sessionMu,      \* the caller holding the write lock, 0 when free
    pc,             \* each caller's position in doAuthenticatedRequest
    tok,            \* the token each caller holds for its request
    retried,        \* whether the caller's request has used its retry
    replies,        \* history: the authenticated responses of the request
    outcome,        \* "" while pending, then "ok", "session" or "error"
    started,        \* requests each caller has started
    hsMine,         \* handshakes the caller's request has performed
    tokGen,         \* history: the handshake that produced tok[p]
    firstGen,       \* history: the handshake behind the first attempt
    gen,            \* history: the handshake that produced sessionID
    hsOK,           \* history: successful handshakes so far
    conflictSeen,   \* history: some authenticated call was answered 409
    last            \* history: the response just processed and the
                    \* error returned for it, if the request ended there

sessVars == <<sessionID, sessionMu, pc, tok, retried, replies, outcome,
              started, hsMine, tokGen, firstGen, gen, hsOK, conflictSeen,
              last>>

VARIABLES
    vPaths,         \* ValidateDeletionPaths: the candidate paths
    vAllowed,       \* ValidateDeletionPaths: the allowed directories
    vResult         \* its return value: the error ("" for nil, "pending"
                    \* before the call) and the index of the offending path

valVars == <<vPaths, vAllowed, vResult>>

VARIABLES
    goos,           \* runtime.GOOS of the host
    remote,         \* what GetTorrents returns: an error or the item names
    fsys,           \* the local directories: unreadable, or the names inside
    cDirs,          \* CheckDirectories: the requested directories
    cResult         \* its return value, err "pending" before the call

chkVars == <<goos, remote, fsys, cDirs, cResult>>

VARIABLES
    call,           \* one call of a function of the utilities: its name,
                    \* its arguments and, once done, what it returned
    run             \* one run of the check command (runCheck)

vars == <<sessVars, valVars, chkVars, call, run>>

notSession == <<valVars, chkVars, call, run>>
notValidate == <<sessVars, chkVars, call, run>>
notCheck == <<sessVars, valVars, call, run>>
notCall == <<sessVars, valVars, chkVars, run>>

(***************************************************************************)
(* Names: byte order, lower-casing, and NormalizeName.                     *)
(***************************************************************************)
nA == <<"A">>
nB == <<"B">>
nC == <<"C">>
na == <<"a">>

Ord(c) ==
    CASE c = "-" -> 45 [] c = "." -> 46
      [] c = "A" -> 65 [] c = "B" -> 66 [] c = "C" -> 67
      [] c = "a" -> 97 [] c = "b" -> 98 [] c = "c" -> 99 [] c = "d" -> 100
      [] c = "e" -> 101 [] c = "f" -> 102 [] c = "h" -> 104 [] c = "o" -> 111
      [] c = "s" -> 115 [] c = "t" -> 116 [] c = "u" -> 117 [] c = "w" -> 119

Uppers == <<"A", "B", "C", "D", "E", "F", "G", "H", "I", "J", "K", "L", "M", "N", "O", "P", "Q", "R", "S", "T", "U", "V", "W", "X", "Y", "Z">>
Lowers == <<"a", "b", "c", "d", "e", "f", "g", "h", "i", "j", "k", "l", "m", "n", "o", "p", "q", "r", "s", "t", "u", "v", "w", "x", "y", "z">>

LowerChar(c) ==
    IF \E i \in 1..Len(Uppers) : Uppers[i] = c
    THEN Lowers[CHOOSE i \in 1..Len(Uppers) : Uppers[i] = c]
    ELSE c

\* strings.ToLower
ToLower(name) == [i \in 1..Len(name) |-> LowerChar(name[i])]

\* The < of Go strings.
RECURSIVE NameLess(_, _)
NameLess(x, y) ==
    IF y = << >> THEN FALSE
    ELSE IF x = << >> THEN TRUE
    ELSE IF Head(x) # Head(y) THEN Ord(Head(x)) < Ord(Head(y))
    ELSE NameLess(Tail(x), Tail(y))

\* os.ReadDir returns the entries sorted by filename.
RECURSIVE SortNames(_)
SortNames(S) ==
    IF S = {} THEN << >>
    ELSE LET m == CHOOSE x \in S : \A y \in S \ {x} : NameLess(x, y)
         IN  <<m>> \o SortNames(S \ {m})

\* utils.isCaseSensitive
isCaseSensitive == goos # "windows"

\* utils.NormalizeName
NormalizeLowerAlways(name) == ToLower(name)

NormalizeName(name) == IF isCaseSensitive THEN name ELSE ToLower(name)

\* utils.GetSize of an entry: the size and whether an error came with it.
GetSize(name) ==
    CASE name = nA -> [size |-> 1, err |-> FALSE]
      [] name = na -> [size |-> 2, err |-> FALSE]
      [] name = nC -> [size |-> 4, err |-> FALSE]
      [] OTHER -> [size |-> 8, err |-> TRUE]

(***************************************************************************)
(* TorrentService.checkSingleDirectory and CheckDirectories.               *)
(***************************************************************************)
\* A directory os.ReadDir fails on, and one it lists.
Unreadable == [ok |-> FALSE, names |-> {}]
Readable(names) == [ok |-> TRUE, names |-> names]

\* One round of the loop over the entries.
CheckEntry(result, dir, name, torrentMap) ==
    IF NormalizeName(name) \in torrentMap
    THEN [result EXCEPT !.FoundItems = @ + 1]
    ELSE LET fullPath == Join(dir, name)
             sz == GetSize(name)
         IN  [result EXCEPT
                 !.MissingPaths = Append(@, Abs(fullPath)),
                 !.MissingSize = IF sz.err THEN @ ELSE @ + sz.size]

RECURSIVE CheckEntries(_, _, _, _)
CheckEntries(result, dir, entries, torrentMap) ==
    IF entries = << >> THEN result
    ELSE CheckEntries(CheckEntry(result, dir, Head(entries), torrentMap),
                      dir, Tail(entries), torrentMap)

checkSingleDirectory(dir, torrentMap) ==
    IF ~fsys[dir].ok
    THEN [err |-> "readdir"]
    ELSE LET entries == SortNames(fsys[dir].names) IN
         [err |-> "",
          res |-> CheckEntries([Path |-> dir,
                                TotalItems |-> Len(entries),
                                FoundItems |-> 0,
                                MissingSize |-> 0,
                                MissingPaths |-> << >>],
                               dir, entries, torrentMap)]

\* The sums of CheckDirectories' loop body.
AccumulateNoFound(result, dirResult) ==
    [result EXCEPT
        !.Directories = Append(@, dirResult),
        !.TotalItems = @ + dirResult.TotalItems,
        !.TotalMissingSize = @ + dirResult.MissingSize,
        !.MissingPaths = @ \o dirResult.MissingPaths]

Accumulate(result, dirResult) ==
    [result EXCEPT
        !.Directories = Append(@, dirResult),
        !.TotalItems = @ + dirResult.TotalItems,
        !.TotalFound = @ + dirResult.FoundItems,
        !.TotalMissingSize = @ + dirResult.MissingSize,
        !.MissingPaths = @ \o dirResult.MissingPaths]

\* A nil result with an error.
Failed(e, i) ==
    [err |-> e, at |-> i, Directories |-> << >>, TotalItems |-> 0,
     TotalFound |-> 0, TotalMissingSize |-> 0, MissingPaths |-> << >>]

RECURSIVE CheckFrom(_, _, _, _)
CheckFrom(result, dirs, i, torrentMap) ==
    IF i > Len(dirs) THEN result
    ELSE LET d == checkSingleDirectory(dirs[i], torrentMap) IN
         IF d.err # "" THEN Failed("readdir", i)
         ELSE CheckFrom(Accumulate(result, d.res), dirs, i + 1, torrentMap)

CheckDirectories(dirs) ==
    IF remote.err THEN Failed("fetch", 0)
    ELSE LET torrentMap == {NormalizeName(n) : n \in remote.names} IN
         CheckFrom([err |-> "", at |-> 0, Directories |-> << >>,
                    TotalItems |-> 0, TotalFound |-> 0,
                    TotalMissingSize |-> 0, MissingPaths |-> << >>],
                   dirs, 1, torrentMap)

MaxAuthCalls == 3

NoEvent == [kind |-> "none", p |-> 0, status |-> 0, text |-> "", err |-> ""]

\* What the history keeps of an authenticated response.
ReplyClass(status, result) ==
    IF status = 409 THEN "conflict"
    ELSE IF status = 200 /\ result = "success" THEN "ok"
    ELSE "other"


InitSession ==
    /\ sessionID = ""
    /\ sessionMu = 0
    /\ pc = [p \in Callers |-> "idle"]
    /\ tok = [p \in Callers |-> ""]
    /\ retried = [p \in Callers |-> FALSE]
    /\ replies = [p \in Callers |-> << >>]
    /\ outcome = [p \in Callers |-> ""]
    /\ started = [p \in Callers |-> 0]
    /\ hsMine = [p \in Callers |-> 0]
    /\ tokGen = [p \in Callers |-> 0]
    /\ firstGen = [p \in Callers |-> 0]
    /\ gen = 0
    /\ hsOK = 0
    /\ conflictSeen = FALSE
    /\ last = NoEvent

\* The directory check at rest, for the specifications that do not run it.
IdleCheck ==
    /\ goos = "linux"
    /\ remote = [err |-> FALSE, names |-> {}]
    /\ fsys = << >>
    /\ cDirs = << >>
    /\ cResult = [err |-> "idle"]

\* The validation at rest, for the specifications that do not run it.
IdleValidate ==
    /\ vPaths = << >>
    /\ vAllowed = << >>
    /\ vResult = [err |-> "idle", at |-> 0]

\* No call of a utility function, and no run of the check command.
IdleCall == call = [fn |-> "none", done |-> FALSE]

IdleRun == run = [pc |-> "idle"]

(***************************************************************************)
(* The decisions of the session manager.                                   *)
(***************************************************************************)
\* getSessionID, under the write lock: a token cached meanwhile is reused.
NeverReuse(cached) == FALSE

ReuseCached(cached) == cached # ""

\* doAuthenticatedRequest: a conflict is retried once per request.
AlwaysRetry(usedRetry) == TRUE

CanRetry(usedRetry) == ~usedRetry

\* Conflict recovery: only the token the daemon refused is invalidated.
AlwaysStale(cached, refused) == TRUE

IsStale(cached, refused) == cached = refused

RECURSIVE SumTo(_, _)
SumTo(f, n) == IF n = 0 THEN 0 ELSE f[n] + SumTo(f, n - 1)

TotalStarted == SumTo(started, NumCallers)

(***************************************************************************)
(* A caller starts an authenticated request (GetTorrents).                 *)
(***************************************************************************)
Start(p) ==
    /\ pc[p] \in {"idle", "done"}
    /\ TotalStarted < MaxRequests
    /\ pc' = [pc EXCEPT ![p] = "getTok"]
    /\ started' = [started EXCEPT ![p] = @ + 1]
    /\ tok' = [tok EXCEPT ![p] = ""]
    /\ retried' = [retried EXCEPT ![p] = FALSE]
    /\ replies' = [replies EXCEPT ![p] = << >>]
    /\ outcome' = [outcome EXCEPT ![p] = ""]
    /\ hsMine' = [hsMine EXCEPT ![p] = 0]
    /\ tokGen' = [tokGen EXCEPT ![p] = 0]
    /\ firstGen' = [firstGen EXCEPT ![p] = 0]
    /\ last' = NoEvent
    /\ UNCHANGED <<sessionID, sessionMu, gen, hsOK, conflictSeen>>
    /\ UNCHANGED notSession

(***************************************************************************)
(* getSessionID, read side: with a token cached the caller takes it and    *)
(* sends its request; no transport call is made for the token.             *)
(***************************************************************************)
GetSessionIDRead(p) ==
    /\ pc[p] = "getTok"
    /\ sessionMu = 0
    /\ IF sessionID # ""
       THEN /\ tok' = [tok EXCEPT ![p] = sessionID]
            /\ tokGen' = [tokGen EXCEPT ![p] = gen]
            /\ pc' = [pc EXCEPT ![p] = "inflight"]
       ELSE /\ pc' = [pc EXCEPT ![p] = "wantLock"]
            /\ UNCHANGED <<tok, tokGen>>
    /\ last' = NoEvent
    /\ UNCHANGED <<sessionID, sessionMu, retried, replies, outcome, started,
                   hsMine, firstGen, gen, hsOK, conflictSeen>>
    /\ UNCHANGED notSession

(***************************************************************************)
(* getSessionID, write side: the caller takes the write lock, looks at the *)
(* cache again and, with no token there, sends the handshake and keeps the *)
(* lock until the response is processed.                                   *)
(***************************************************************************)
GetSessionIDLock(p) ==
    /\ pc[p] = "wantLock"
    /\ sessionMu = 0
    /\ IF ReuseCached(sessionID)
       THEN /\ tok' = [tok EXCEPT ![p] = sessionID]
            /\ tokGen' = [tokGen EXCEPT ![p] = gen]
            /\ pc' = [pc EXCEPT ![p] = "inflight"]
            /\ UNCHANGED <<sessionMu, hsMine>>
       ELSE /\ sessionMu' = p
            /\ pc' = [pc EXCEPT ![p] = "handshaking"]
            /\ hsMine' = [hsMine EXCEPT ![p] = @ + 1]
            /\ UNCHANGED <<tok, tokGen>>
    /\ last' = NoEvent
    /\ UNCHANGED <<sessionID, retried, replies, outcome, started, firstGen,
                   gen, hsOK, conflictSeen>>
    /\ UNCHANGED notSession

(***************************************************************************)
(* The handshake response arrives: GetSessionID reads it, the token is     *)
(* cached, the lock released and the caller's request sent; an error ends  *)
(* the request and leaves the manager in NoSession.                        *)
(***************************************************************************)
HandshakeReply(p) ==
    /\ pc[p] = "handshaking"
    /\ \E status \in Statuses, header \in Headers :
         LET r == ClassifyHandshake(status, header) IN
         /\ last' = [kind |-> "handshake", p |-> p, status |-> status,
                     text |-> header, err |-> r.err]
         /\ IF r.err = ""
            THEN /\ sessionID' = r.token
                 /\ gen' = hsOK + 1
                 /\ hsOK' = hsOK + 1
                 /\ tok' = [tok EXCEPT ![p] = r.token]
                 /\ tokGen' = [tokGen EXCEPT ![p] = hsOK + 1]
                 /\ pc' = [pc EXCEPT ![p] = "inflight"]
                 /\ UNCHANGED outcome
            ELSE /\ sessionID' = ""
                 /\ gen' = 0
                 /\ pc' = [pc EXCEPT ![p] = "done"]
                 /\ outcome' = [outcome EXCEPT ![p] = "error"]
                 /\ UNCHANGED <<hsOK, tok, tokGen>>
    /\ sessionMu' = 0
    /\ UNCHANGED <<retried, replies, started, hsMine, firstGen, conflictSeen>>
    /\ UNCHANGED notSession

(***************************************************************************)
(* The authenticated response arrives: GetTorrents reads it.  A conflict   *)
(* sends the request into recovery if it has not retried yet and is a      *)
(* session error otherwise; everything else ends the request.              *)
(***************************************************************************)
AuthReply(p) ==
    /\ pc[p] = "inflight"
    /\ Len(replies[p]) < MaxAuthCalls
    /\ \E status \in Statuses, result \in Results :
         LET e == ClassifyAuth(status, result)
             retry == e = "conflict" /\ CanRetry(retried[p])
             final == IF retry THEN ""
                      ELSE IF e = "conflict" THEN "session"
                      ELSE IF e = "" THEN "ok" ELSE "error"
         IN
         /\ replies' = [replies EXCEPT ![p] = Append(@, ReplyClass(status, result))]
         /\ conflictSeen' = (conflictSeen \/ status = 409)
         /\ last' = [kind |-> "auth", p |-> p, status |-> status,
                     text |-> IF status = 200 THEN result ELSE "",
                     err |-> IF retry THEN "" ELSE e]
         /\ pc' = [pc EXCEPT ![p] = IF retry THEN "recover" ELSE "done"]
         /\ retried' = [retried EXCEPT ![p] = @ \/ retry]
         /\ outcome' = [outcome EXCEPT ![p] = final]
    /\ firstGen' = [firstGen EXCEPT ![p] = IF replies[p] = << >> THEN tokGen[p] ELSE @]
    /\ UNCHANGED <<sessionID, sessionMu, tok, started, hsMine, tokGen, gen,
                   hsOK>>
    /\ UNCHANGED notSession

(***************************************************************************)
(* Conflict recovery, one critical section under the write lock: the       *)
(* refused token is invalidated and a token fetched again.  If another     *)
(* caller has cached a newer token meanwhile, that token is taken.         *)
(***************************************************************************)
Recover(p) ==
    /\ pc[p] = "recover"
    /\ sessionMu = 0
    /\ LET kept == IF IsStale(sessionID, tok[p]) THEN "" ELSE sessionID IN
       IF kept = ""
       THEN /\ sessionID' = ""
            /\ gen' = 0
            /\ sessionMu' = p
            /\ pc' = [pc EXCEPT ![p] = "handshaking"]
            /\ hsMine' = [hsMine EXCEPT ![p] = @ + 1]
            /\ UNCHANGED <<tok, tokGen>>
       ELSE /\ tok' = [tok EXCEPT ![p] = kept]
            /\ tokGen' = [tokGen EXCEPT ![p] = gen]
            /\ pc' = [pc EXCEPT ![p] = "inflight"]
            /\ UNCHANGED <<sessionID, gen, sessionMu, hsMine>>
    /\ last' = NoEvent
    /\ UNCHANGED <<retried, replies, outcome, started, firstGen, hsOK,
                   conflictSeen>>
    /\ UNCHANGED notSession

NextSession ==
    \E p \in Callers :
        \/ Start(p)
        \/ GetSessionIDRead(p)
        \/ GetSessionIDLock(p)
        \/ HandshakeReply(p)
        \/ AuthReply(p)
        \/ Recover(p)

InitSpecSession ==
    InitSession /\ IdleValidate /\ IdleCheck /\ IdleCall /\ IdleRun

SpecSession == InitSpecSession /\ [][NextSession]_vars

(***************************************************************************)
(* Properties of the session protocol.                                     *)
(***************************************************************************)
Ok200 == "ok"
Conflict409 == "conflict"

\* C1: a request whose first authenticated call is answered 409 has used
\* its retry, and if the second call is answered 200 with a valid payload
\* the request has ended in success after exactly two authenticated calls,
\* sent with a token of a newer handshake than the refused one, which is
\* no longer the cached token.
ConflictRetrySucceeds ==
    \A p \in Callers :
        (Len(replies[p]) >= 1 /\ replies[p][1] = Conflict409) =>
            /\ retried[p]
            /\ (Len(replies[p]) >= 2 /\ replies[p][2] = Ok200) =>
                   /\ pc[p] = "done"
                   /\ outcome[p] = "ok"
                   /\ Len(replies[p]) = 2
                   /\ firstGen[p] > 0
                   /\ tokGen[p] > firstGen[p]
                   /\ gen # firstGen[p]

ConflictRetryWitness ==
    \E p \in Callers :
        /\ replies[p] = <<Conflict409, Ok200>>
        /\ outcome[p] = "ok"
        /\ hsMine[p] >= 1

\* C2: no request makes a third authenticated call; a request answered 409
\* on the initial and on the retried call has ended with a session error.
RepeatedConflictBounded ==
    \A p \in Callers :
        /\ Len(replies[p]) <= 2
        /\ pc[p] \in {"inflight", "recover", "handshaking"} => Len(replies[p]) <= 1
        /\ hsMine[p] <= 2
        /\ (Len(replies[p]) = 2 /\ replies[p][1] = Conflict409
                                /\ replies[p][2] = Conflict409) =>
               (pc[p] = "done" /\ outcome[p] = "session")

RepeatedConflictWitness ==
    \E p \in Callers :
        /\ replies[p] = <<Conflict409, Conflict409>>
        /\ outcome[p] = "session"

\* C3: a handshake answered 409 with the session header present yields the
\* header's value as the caller's token, with no error, and caches it.
HandshakeYieldsToken ==
    (last.kind = "handshake" /\ last.status = 409 /\ last.text # "") =>
        /\ tok[last.p] = last.text
        /\ sessionID = last.text
        /\ last.err = ""
        /\ outcome[last.p] = ""
        /\ pc[last.p] = "inflight"

HandshakeWitness ==
    /\ last.kind = "handshake"
    /\ last.status = 409
    /\ last.text = "t1"
    /\ sessionID = "t1"
    /\ hsOK = 1

OneHandshakeInFlight ==
    /\ Cardinality({p \in Callers : pc[p] = "handshaking"}) <= 1
    /\ \A p \in Callers : pc[p] = "handshaking" <=> sessionMu = p

\* A caller that comes to the token step with a token cached takes it.
WaiterReusesToken ==
    \A p \in Callers :
        (pc[p] \in {"getTok", "wantLock"} /\ sessionID # "" /\ pc'[p] # pc[p]) =>
            /\ pc'[p] = "inflight"
            /\ tok'[p] = sessionID
            /\ sessionID' = sessionID
            /\ hsMine'[p] = 0
            /\ hsOK' = hsOK

\* C5: at most one handshake is in flight, its caller holding the write
\* lock; and a caller waiting for a token when one is cached takes the
\* cached token, with no handshake of its own.
SingleFlightHandshake == []OneHandshakeInFlight /\ [][WaiterReusesToken]_vars

SingleFlightWitness ==
    \E p, q \in Callers :
        /\ p # q
        /\ pc[p] = "wantLock"
        /\ sessionID # ""
        /\ tokGen[q] = gen
        /\ hsMine[q] = 1

\* One step of recovery, as seen by the caller taking it.
RecoveryKeepsFreshToken ==
    \A p \in Callers :
        (pc[p] = "recover" /\ pc'[p] # "recover") =>
            /\ (sessionID # "" /\ sessionID # tok[p]) =>
                   /\ sessionID' = sessionID
                   /\ tok'[p] = sessionID
                   /\ pc'[p] = "inflight"
                   /\ hsMine'[p] = hsMine[p]
            /\ sessionID' = "" => (pc'[p] = "handshaking" /\ sessionMu' = p)

MaxPaths == 2
MaxAllowed == 2

CandidatePool ==
    { AbsPath(<<nData, nSub, nFile>>),
      AbsPath(<<nDataOther, nFile>>),
      AbsPath(<<nData, nHidden>>),
      AbsPath(<<nData, nFile>>),
      AbsPath(<<nData>>),
      AbsPath(<< >>),
      AbsPath(<<nData, nDotDot, nEtc>>),
      RelPath(<<nFile>>) }

AllowedPool ==
    { AbsPath(<<nData>>), AbsPath(<<nData, nSub>>), RelPath(<<nDot>>),
      AbsPath(<< >>) }

SeqsUpTo(S, n) == UNION {[1..k -> S] : k \in 0..n}

InitValidate ==
    /\ vPaths \in SeqsUpTo(CandidatePool, MaxPaths)
    /\ vAllowed \in SeqsUpTo(AllowedPool, MaxAllowed)
    /\ vResult = [err |-> "pending", at |-> 0]

Validate ==
    /\ vResult.err = "pending"
    /\ vResult' = ValidateDeletionPaths(vPaths, vAllowed)
    /\ UNCHANGED <<vPaths, vAllowed>>
    /\ UNCHANGED notValidate

NextValidate == Validate

InitSpecValidate ==
    InitSession /\ InitValidate /\ IdleCheck /\ IdleCall /\ IdleRun

SpecValidate == InitSpecValidate /\ [][NextValidate]_vars

\* A strict descendant by path components.
StrictDescendant(absPath, dir) ==
    /\ Len(absPath.comps) > Len(dir.comps)
    /\ SubSeq(absPath.comps, 1, Len(dir.comps)) = dir.comps

InScope(path, allowedDirs) ==
    \E i \in 1..Len(allowedDirs) : StrictDescendant(Abs(path), Abs(allowedDirs[i]))

\* C10: with allowed directories given, the validation rejects a candidate
\* as outside of them exactly when it is a strict descendant of none; with
\* none given, no candidate is rejected as outside.
AllowedIffDescendant ==
    vResult.err \notin {"idle", "pending"} =>
        /\ vResult.err = "outside" =>
               (Len(vAllowed) > 0 /\ ~InScope(vPaths[vResult.at], vAllowed))
        /\ \A i \in 1..Len(vPaths) :
               (Len(vAllowed) > 0 /\ (vResult.at = 0 \/ i < vResult.at)) =>
                   InScope(vPaths[i], vAllowed)
        /\ \A i \in 1..Len(vPaths) :
               (Len(vAllowed) > 0 /\ i = vResult.at /\ ~InScope(vPaths[i], vAllowed)) =>
                   vResult.err = "outside"

\* C11: a batch holding a candidate that resolves to a critical root is
\* never validated, whatever the allowed directories are: the validation
\* fails at that candidate, as a system path when it passes the allow-list,
\* or at a candidate before it.
SystemPathAlwaysRejected ==
    vResult.err \notin {"idle", "pending"} =>
        \A i \in 1..Len(vPaths) :
            Abs(vPaths[i]) \in SystemPaths =>
                /\ vResult.err # ""
                /\ vResult.at <= i
                /\ (vResult.at = i /\ (vAllowed = << >> \/ IsAllowed(Abs(vPaths[i]), vAllowed)))
                       => vResult.err = "system"

SystemPathWitness ==
    /\ vAllowed = <<AbsPath(<< >>)>>
    /\ vPaths = <<AbsPath(<<nData, nFile>>), AbsPath(<<nData, nDotDot, nEtc>>)>>
    /\ vResult = [err |-> "system", at |-> 2]

(***************************************************************************)
(* The directory check: host, remote items and local directories are       *)
(* drawn, CheckDirectories applied.                                        *)
(***************************************************************************)
MaxDirs == 2

dirD == AbsPath(<<Str1("d")>>)
dirE == RelPath(<<Str1("e")>>)

DirPool == {dirD, dirE}
LocalNames == [d \in DirPool |-> IF d = dirD THEN {nA, na, nC, nHidden} ELSE {nC, na}]
RemoteNames == {nA, nB, na}

Listings(d) == {Unreadable} \cup {Readable(N) : N \in SUBSET LocalNames[d]}

\* A case-insensitive host holds no two names that differ in case only.
Listable(names) ==
    goos = "windows" =>
        \A x, y \in names : ToLower(x) = ToLower(y) => x = y

InitCheck ==
    /\ goos \in {"linux", "windows", "darwin"}
    /\ remote \in {[err |-> TRUE, names |-> {}]}
                  \cup {[err |-> FALSE, names |-> N] : N \in SUBSET RemoteNames}
    /\ fsys \in {f \in [DirPool -> UNION {Listings(d) : d \in DirPool}] :
                    \A d \in DirPool : f[d] \in Listings(d)}
    /\ \A d \in DirPool : Listable(fsys[d].names)
    /\ cDirs \in SeqsUpTo(DirPool, MaxDirs)
    /\ cResult = [err |-> "pending"]

Check ==
    /\ cResult.err = "pending"
    /\ cResult' = CheckDirectories(cDirs)
    /\ UNCHANGED <<goos, remote, fsys, cDirs>>
    /\ UNCHANGED notCheck

NextCheck == Check

InitSpecCheck ==
    InitSession /\ IdleValidate /\ InitCheck /\ IdleCall /\ IdleRun

SpecCheck == InitSpecCheck /\ [][NextCheck]_vars

CheckDone == cResult.err \notin {"idle", "pending"}

RECURSIVE SumSeq(_)
SumSeq(seq) == IF seq = << >> THEN 0 ELSE Head(seq) + SumSeq(Tail(seq))

\* C7: in every result of CheckDirectories each directory's found count
\* plus its number of missing paths is its number of entries, the same
\* holds of the totals, and the totals are the sums over the directories.
CountingInvariant ==
    (CheckDone /\ cResult.err = "") =>
        /\ \A i \in 1..Len(cResult.Directories) :
               LET d == cResult.Directories[i] IN
               /\ d.FoundItems + Len(d.MissingPaths) = d.TotalItems
               /\ d.FoundItems <= d.TotalItems
               /\ d.TotalItems = Cardinality(fsys[cDirs[i]].names)
        /\ cResult.TotalFound + Len(cResult.MissingPaths) = cResult.TotalItems
        /\ LET ds == cResult.Directories IN
           /\ cResult.TotalItems = SumSeq([i \in 1..Len(ds) |-> ds[i].TotalItems])
           /\ cResult.TotalFound = SumSeq([i \in 1..Len(ds) |-> ds[i].FoundItems])
           /\ Len(cResult.MissingPaths) =
                  SumSeq([i \in 1..Len(ds) |-> Len(ds[i].MissingPaths)])

CountingWitness ==
    /\ CheckDone
    /\ cResult.err = ""
    /\ Len(cResult.Directories) = 2
    /\ cResult.TotalFound >= 2
    /\ Len(cResult.MissingPaths) >= 2
    /\ cResult.Directories[1].FoundItems >= 1
    /\ cResult.Directories[2].MissingPaths # << >>

IsReadable(d) == fsys[d].ok

\* C8: a directory that cannot be read is skipped: the check returns
\* without error the results of the directories that can be read.
UnreadableDirectorySkipped ==
    (CheckDone /\ ~remote.err) =>
        /\ cResult.err = ""
        /\ [i \in 1..Len(cResult.Directories) |-> cResult.Directories[i].Path]
               = SelectSeq(cDirs, IsReadable)

\* Equality of names as section 4.5 of the specification states it.
SameName(x, y) == IF goos = "windows" THEN ToLower(x) = ToLower(y) ELSE x = y

InTransmission(name) == \E t \in remote.names : SameName(name, t)

NotInTransmission(name) == ~InTransmission(name)

\* C9: an entry is found exactly when its name equals the name of a remote
\* item, compared in lower case on Windows and as it stands elsewhere;
\* every other entry is listed, in order, by its absolute path.  Remote
\* A, B and local A, C in /d give one found and /d/C missing.
ClassificationRule ==
    (CheckDone /\ cResult.err = "") =>
        /\ \A i \in 1..Len(cResult.Directories) :
               LET d == cResult.Directories[i]
                   names == fsys[cDirs[i]].names
                   missing == SelectSeq(SortNames(names), NotInTransmission)
               IN  /\ d.FoundItems = Cardinality({n \in names : InTransmission(n)})
                   /\ d.MissingPaths =
                          [j \in 1..Len(missing) |-> Abs(Join(cDirs[i], missing[j]))]
                   /\ \A j \in 1..Len(d.MissingPaths) : d.MissingPaths[j].abs
        /\ (cDirs = <<dirD>> /\ remote.names = {nA, nB}
                             /\ fsys[dirD].names = {nA, nC}) =>
               /\ cResult.TotalFound = 1
               /\ cResult.MissingPaths = <<AbsPath(<<Str1("d"), nC>>)>>

ClassificationWitness ==
    /\ CheckDone
    /\ cResult.err = ""
    /\ cDirs = <<dirD>>
    /\ remote.names = {nA, nB}
    /\ fsys[dirD].names = {nA, nC}
    /\ cResult.TotalFound = 1

(***************************************************************************)
(* The disk as os.Stat, os.Remove, os.RemoveAll and filepath.WalkDir see   *)
(* it: what is at each path of a pool, and which paths refuse removal.     *)
(***************************************************************************)
NoEntry == [kind |-> "none", size |-> 0, walkErr |-> FALSE]
FileEntry(size) == [kind |-> "file", size |-> size, walkErr |-> FALSE]
DirEntry(walkErr) == [kind |-> "dir", size |-> 0, walkErr |-> walkErr]

pathA == AbsPath(<<Str1("d"), nA>>)
pathB == AbsPath(<<Str1("d"), nB>>)
pathBx == AbsPath(<<Str1("d"), nB, nFile>>)
pathC == AbsPath(<<Str1("d"), nC>>)

DiskPool == {pathA, pathB, pathBx, pathC}

\* p lies below d.
IsUnder(p, d) ==
    /\ Len(p.comps) > Len(d.comps)
    /\ SubSeq(p.comps, 1, Len(d.comps)) = d.comps

\* os.Stat succeeds.
Exists(disk, path) == path \in DOMAIN disk /\ disk[path].kind # "none"

RECURSIVE SumSizes(_, _)
SumSizes(disk, S) ==
    IF S = {} THEN 0
    ELSE LET p == CHOOSE q \in S : TRUE IN disk[p].size + SumSizes(disk, S \ {p})

\* utils.GetSize on the disk: the size of a file, the sizes of the files
\* below a directory, with the error of the walk if there was one.
GetSizeOn(disk, path) ==
    IF ~Exists(disk, path) THEN [size |-> 0, err |-> TRUE]
    ELSE IF disk[path].kind = "file" THEN [size |-> disk[path].size, err |-> FALSE]
    ELSE [size |-> SumSizes(disk, {q \in DOMAIN disk :
                                      IsUnder(q, path) /\ disk[q].kind = "file"}),
          err |-> disk[path].walkErr]

\* utils.FileInfo: the operation record and the error returned.
FileInfo(disk, path) ==
    IF ~Exists(disk, path)
    THEN [op |-> [Path |-> path, Size |-> 0, IsDir |-> FALSE, Error |-> "stat"],
          err |-> TRUE]
    ELSE IF disk[path].kind = "file"
    THEN [op |-> [Path |-> path, Size |-> disk[path].size, IsDir |-> FALSE,
                  Error |-> ""],
          err |-> FALSE]
    ELSE LET sz == GetSizeOn(disk, path) IN
         [op |-> [Path |-> path, Size |-> IF sz.err THEN 0 ELSE sz.size,
                  IsDir |-> TRUE, Error |-> IF sz.err THEN "size" ELSE ""],
          err |-> FALSE]

\* os.Remove of a file, os.RemoveAll of a directory.
RemoveFrom(disk, path, isDir) ==
    [q \in DOMAIN disk |->
        IF q = path \/ (isDir /\ IsUnder(q, path)) THEN NoEntry ELSE disk[q]]

(***************************************************************************)
(* utils.DeleteFiles.  The state of its loop: the result, the disk and the *)
(* calls of the progress callback so far.                                  *)
(***************************************************************************)
EmptyResult ==
    [Success |-> << >>, Failed |-> << >>, TotalSize |-> 0,
     SuccessCount |-> 0, FailedCount |-> 0]

\* What one round of the loop does to candidate i, in order: os.Stat, the
\* progress callback and, when the stat succeeded, the removal.
LoopEvents(i, statFailed) ==
    <<[ev |-> "stat", i |-> i], [ev |-> "progress", i |-> i]>>
    \o (IF statFailed THEN << >> ELSE <<[ev |-> "remove", i |-> i]>>)

\* One round of the loop, the failure of a removal counted but not recorded.
DeleteOneDropFailed(st, paths, i, locked) ==
    LET path == paths[i]
        fi == FileInfo(st.disk, path)
        calls == Append(st.calls, [current |-> i, total |-> Len(paths),
                                   path |-> path, size |-> fi.op.Size])
    IN  IF fi.err
        THEN [st EXCEPT !.calls = calls,
                        !.log = @ \o LoopEvents(i, fi.err),
                        !.result.Failed = Append(@, [fi.op EXCEPT !.Error = "stat"]),
                        !.result.FailedCount = @ + 1]
        ELSE IF path \in locked
        THEN [st EXCEPT !.calls = calls,
                        !.log = @ \o LoopEvents(i, fi.err),
                        !.result.FailedCount = @ + 1]
        ELSE [st EXCEPT !.calls = calls,
                        !.log = @ \o LoopEvents(i, fi.err),
                        !.disk = RemoveFrom(st.disk, path, fi.op.IsDir),
                        !.result.Success = Append(@, fi.op),
                        !.result.SuccessCount = @ + 1,
                        !.result.TotalSize = @ + fi.op.Size]

DeleteOne(st, paths, i, locked) ==
    LET path == paths[i]
        fi == FileInfo(st.disk, path)
        calls == Append(st.calls, [current |-> i, total |-> Len(paths),
                                   path |-> path, size |-> fi.op.Size])
    IN  IF fi.err
        THEN [st EXCEPT !.calls = calls,
                        !.log = @ \o LoopEvents(i, fi.err),
                        !.result.Failed = Append(@, [fi.op EXCEPT !.Error = "stat"]),
                        !.result.FailedCount = @ + 1]
        ELSE IF path \in locked
        THEN [st EXCEPT !.calls = calls,
                        !.log = @ \o LoopEvents(i, fi.err),
                        !.result.Failed = Append(@, [fi.op EXCEPT !.Error = "remove"]),
                        !.result.FailedCount = @ + 1]
        ELSE [st EXCEPT !.calls = calls,
                        !.log = @ \o LoopEvents(i, fi.err),
                        !.disk = RemoveFrom(st.disk, path, fi.op.IsDir),
                        !.result.Success = Append(@, fi.op),
                        !.result.SuccessCount = @ + 1,
                        !.result.TotalSize = @ + fi.op.Size]

\* The loop that ends at the first candidate that fails.
RECURSIVE DeleteFromUntilFailure(_, _, _, _)
DeleteFromUntilFailure(st, paths, i, locked) ==
    IF i > Len(paths) THEN st
    ELSE LET next == DeleteOne(st, paths, i, locked) IN
         IF next.result.FailedCount > st.result.FailedCount THEN next
         ELSE DeleteFromUntilFailure(next, paths, i + 1, locked)

RECURSIVE DeleteFrom(_, _, _, _)
DeleteFrom(st, paths, i, locked) ==
    IF i > Len(paths) THEN st
    ELSE DeleteFrom(DeleteOne(st, paths, i, locked), paths, i + 1, locked)

\* DeleteFiles(paths, cb) on a disk where the paths of locked refuse removal.
DeleteFiles(paths, disk, locked) ==
    DeleteFrom([result |-> EmptyResult, disk |-> disk, calls |-> << >>,
                log |-> << >>],
               paths, 1, locked)

(***************************************************************************)
(* DeleteFiles applied to drawn paths on a drawn disk.                     *)
(***************************************************************************)
MaxDeletePaths == 3

FileSizes == {1, 2}

\* The disks: a file or nothing at /d/A and /d/C, a directory or nothing at
\* /d/B, and a file below it only when it is there.
Disks ==
    { [q \in DiskPool |->
          CASE q = pathA -> a [] q = pathB -> b [] q = pathBx -> x [] OTHER -> c] :
        a \in {NoEntry} \cup {FileEntry(n) : n \in FileSizes},
        b \in {NoEntry, DirEntry(FALSE), DirEntry(TRUE)},
        x \in {NoEntry, FileEntry(2)},
        c \in {NoEntry, FileEntry(4)} }

ConsistentDisk(disk) == disk[pathBx].kind # "none" => disk[pathB].kind = "dir"

InitDelete ==
    call \in { [fn |-> "DeleteFiles", done |-> FALSE, paths |-> ps,
                disk |-> d, locked |-> l] :
                 ps \in SeqsUpTo(DiskPool, MaxDeletePaths),
                 d \in {dd \in Disks : ConsistentDisk(dd)},
                 l \in SUBSET {pathA, pathB} }

Delete ==
    /\ call.fn = "DeleteFiles"
    /\ ~call.done
    /\ call' = [fn |-> "DeleteFiles", done |-> TRUE, paths |-> call.paths,
                disk |-> call.disk, locked |-> call.locked,
                out |-> DeleteFiles(call.paths, call.disk, call.locked)]
    /\ UNCHANGED notCall

NextDelete == Delete

InitSpecDelete ==
    InitSession /\ IdleValidate /\ IdleCheck /\ InitDelete /\ IdleRun

SpecDelete == InitSpecDelete /\ [][NextDelete]_vars

DeleteDone == call.fn = "DeleteFiles" /\ call.done

\* The positions of paths whose record is the k-th of recs, for every k:
\* the records of recs are those of the positions in pos, in order.
RecordsOf(recs, paths, pos) ==
    /\ Len(recs) = Len(pos)
    /\ \A k \in 1..Len(recs) : recs[k].Path = paths[pos[k]]
    /\ \A k \in 1..(Len(pos) - 1) : pos[k] < pos[k + 1]

\* C14: after DeleteFiles the occurrences of the candidates are split in
\* two: each position of paths has its record in exactly one of Success and
\* Failed, the two counts are the lengths of the two lists and add up to the
\* number of candidates, and TotalSize is the sum of the sizes in Success.
DeletePartition ==
    DeleteDone =>
        LET r == call.out.result
            n == Len(call.paths)
        IN  /\ r.SuccessCount = Len(r.Success)
            /\ r.FailedCount = Len(r.Failed)
            /\ r.SuccessCount + r.FailedCount = n
            /\ r.TotalSize = SumSeq([k \in 1..Len(r.Success) |-> r.Success[k].Size])
            /\ \E S \in SUBSET (1..n) :
                   LET ok == SelectSeq([k \in 1..n |-> k], LAMBDA k : k \in S)
                       ko == SelectSeq([k \in 1..n |-> k], LAMBDA k : k \notin S)
                   IN  /\ RecordsOf(r.Success, call.paths, ok)
                       /\ RecordsOf(r.Failed, call.paths, ko)

DeletePartitionWitness ==
    /\ DeleteDone
    /\ call.paths = <<pathB, pathA, pathB>>
    /\ call.out.result.SuccessCount = 2
    /\ call.out.result.FailedCount = 1
    /\ call.out.result.TotalSize = 3

(***************************************************************************)
(* Configuration.  Strings are sequences of characters.                    *)
(***************************************************************************)
DefaultPort == 9091
MinPort == 1
MaxPort == 65535

Digits == {"0", "1", "2", "3", "4", "5", "6", "7", "8", "9"}
Letters == {Uppers[i] : i \in 1..Len(Uppers)} \cup {Lowers[i] : i \in 1..Len(Lowers)}
Spaces == {" ", "\t", "\n", "\r"}

\* strings.TrimSpace
RECURSIVE TrimLeft(_)
TrimLeft(s) == IF s # << >> /\ Head(s) \in Spaces THEN TrimLeft(Tail(s)) ELSE s

RECURSIVE TrimRight(_)
TrimRight(s) ==
    IF s # << >> /\ s[Len(s)] \in Spaces
    THEN TrimRight(SubSeq(s, 1, Len(s) - 1)) ELSE s

TrimSpace(s) == TrimRight(TrimLeft(s))

\* net.ParseIP succeeds: the address literals among the hosts of the model.
IPLiterals == {<<":", ":", "1">>, <<"1", "0", ".", "0", ".", "0", ".", "1">>}

ParsesAsIP(s) == s \in IPLiterals

\* types.isValidHostname
isValidHostname(hostname) ==
    /\ Len(hostname) # 0
    /\ Len(hostname) <= 253
    /\ \A i \in 1..(Len(hostname) - 1) : ~(hostname[i] = "." /\ hostname[i + 1] = ".")
    /\ \A i \in 1..Len(hostname) :
           \/ hostname[i] = "."
           \/ (hostname[i] = "-" /\ i > 1 /\ i < Len(hostname))
           \/ hostname[i] \in Letters \cup Digits

\* Config.SetDefaults
SetDefaults(cfg) == IF cfg.Port = 0 THEN [cfg EXCEPT !.Port = DefaultPort] ELSE cfg

\* Config.ValidateHost: the field at fault, "" for nil.
ValidateHost(cfg) ==
    IF cfg.Host = << >> THEN "host"
    ELSE LET trimmed == TrimSpace(cfg.Host) IN
         IF trimmed = << >> THEN "host"
         ELSE IF ~ParsesAsIP(trimmed) /\ ~isValidHostname(trimmed) THEN "host"
         ELSE ""

\* Config.ValidatePort
\* The check of the upper end only.
ValidatePortUpperOnly(cfg) == IF cfg.Port > MaxPort THEN "port" ELSE ""

ValidatePort(cfg) == IF cfg.Port < MinPort \/ cfg.Port > MaxPort THEN "port" ELSE ""

WeakPasswords == {<<"p", "a", "s", "s", "w", "o", "r", "d">>, <<"1", "2", "3", "4", "5", "6">>, <<"a", "d", "m", "i", "n">>, <<"g", "u", "e", "s", "t">>}

\* Config.ValidateAuth
ValidateAuth(cfg) ==
    IF cfg.User # << >> /\ cfg.Password = << >> THEN "password"
    ELSE IF cfg.Password # << >> /\ ToLower(cfg.Password) \in WeakPasswords THEN "password"
    ELSE ""

\* Config.ValidateDirs: a directory given twice.
ValidateDirs(cfg) ==
    IF \E i, j \in 1..Len(cfg.Dirs) : i < j /\ cfg.Dirs[i] = cfg.Dirs[j]
    THEN "dirs" ELSE ""

\* Config.Validate: the fields at fault, in order; << >> for nil.
ConfigValidate(cfg) ==
    SelectSeq(<<ValidateHost(cfg), ValidatePort(cfg), ValidateAuth(cfg),
                ValidateDirs(cfg)>>,
              LAMBDA f : f # "")

(***************************************************************************)
(* Config.Validate applied to drawn configurations, after SetDefaults as   *)
(* createService does.                                                     *)
(***************************************************************************)
hostLocal == <<"l", "o", "c", "a", "l", "h", "o", "s", "t">>
userAdmin == <<"a", "d", "m", "i", "n">>
passSecret == <<"s", "e", "c", "r", "e", "t">>

Hosts == {<< >>, <<" ">>, hostLocal, <<" ">> \o hostLocal, <<"h", "_", "1">>, <<"a", ".", ".", "b">>, <<":", ":", "1">>}
Ports == {0, MinPort - 1, DefaultPort, MaxPort, MaxPort + 1}
Users == {<< >>, userAdmin}
Passwords == {<< >>, passSecret, <<"A", "d", "m", "i", "n">>, <<"g", "u", "e", "s", "t">>}
DirLists == {<< >>, <<dirD>>, <<dirD, dirD>>, <<dirD, dirE>>}

Configs ==
    [Host : Hosts, Port : Ports, User : Users, Password : Passwords, Dirs : DirLists]

InitConfig ==
    call \in {[fn |-> "Validate", done |-> FALSE, cfg |-> c] : c \in Configs}

ValidateConfig ==
    /\ call.fn = "Validate"
    /\ ~call.done
    /\ call' = [fn |-> "Validate", done |-> TRUE, cfg |-> call.cfg,
                out |-> ConfigValidate(SetDefaults(call.cfg))]
    /\ UNCHANGED notCall

NextConfig == ValidateConfig

InitSpecConfig ==
    InitSession /\ IdleValidate /\ IdleCheck /\ InitConfig /\ IdleRun

SpecConfig == InitSpecConfig /\ [][NextConfig]_vars

\* C18: a configuration that validation accepts names a host, a user and a
\* password.
AuthenticationRequired ==
    (call.fn = "Validate" /\ call.done /\ call.out = << >>) =>
        /\ TrimSpace(call.cfg.Host) # << >>
        /\ call.cfg.User # << >>
        /\ call.cfg.Password # << >>

(***************************************************************************)
(* The check command, runCheck, step by step: options, service, directory  *)
(* check, report, validation, preview, confirmation, deletion.             *)
(***************************************************************************)
MaxRunDirs == 2

rootDir == AbsPath(<< >>)
dotDir == RelPath(<<nDot>>)

pathEtc == AbsPath(<<nEtc>>)
pathD == AbsPath(<<Str1("d")>>)
pathW == AbsPath(<<nWork>>)
pathDA == AbsPath(<<Str1("d"), nA>>)
pathDHidden == AbsPath(<<Str1("d"), nHidden>>)
pathWC == AbsPath(<<nWork, nC>>)

RunDirPool == {rootDir, dirD, dotDir}

\* What os.ReadDir can give for each directory of a run.
RunListings(d) ==
    IF d = rootDir THEN {Unreadable, Readable({nEtc, Str1("d"), nWork})}
    ELSE IF d = dirD THEN {Unreadable} \cup {Readable(N) : N \in SUBSET {nA, nHidden}}
    ELSE {Unreadable} \cup {Readable(N) : N \in SUBSET {nC}}

\* The disk behind the listings: the three directories, and the files the
\* listings name.
Listed(d, name) == fsys[d].ok /\ name \in fsys[d].names

RunDisk ==
    [q \in {pathEtc, pathD, pathW, pathDA, pathDHidden, pathWC} |->
        CASE q = pathDA -> IF Listed(dirD, nA) THEN FileEntry(1) ELSE NoEntry
          [] q = pathDHidden -> IF Listed(dirD, nHidden) THEN FileEntry(2) ELSE NoEntry
          [] q = pathWC -> IF Listed(dotDir, nC) THEN FileEntry(4) ELSE NoEntry
          [] OTHER -> DirEntry(FALSE)]

\* What fmt.Scanln(&response) can give: the word read and whether it failed
\* (an empty line, the end of the input, or more than one word on the line).
ansYes == <<"y", "e", "s">>
ansY == <<"y">>

Answers ==
    {[err |-> FALSE, text |-> t] :
        t \in {ansYes, ansY, <<"Y", "E", "S">>, <<"Y", "e", "s">>, <<"Y">>, <<"n", "o">>, <<"n">>, <<"y", "e", "s", "s">>, <<"y", "e">>}}
    \cup {[err |-> TRUE, text |-> t] : t \in {<< >>, ansYes, ansY}}

NoAnswer == [err |-> FALSE, text |-> << >>]

\* The configurations of a run: complete, without credentials, without host.
RunConfigs ==
    {[Host |-> h, Port |-> 0, User |-> u, Password |-> u, Dirs |-> cDirs] :
        h \in {hostLocal, << >>}, u \in {<< >>, passSecret}}

\* runCheck line 845: the deletion workflow is entered.
WantsDeletion(rm, dryRun, missing) == (rm \/ dryRun) /\ Len(missing) > 0

\* runCheck lines 857-860: the workflow goes on after the validation.
ProceedAlways(verr) == TRUE

ProceedAfterValidation(verr) == verr = ""

\* runCheck lines 915-922: the answer confirms the deletion.
ConfirmedDespiteReadError(answer) ==
    ToLower(TrimSpace(answer.text)) \in {ansYes, ansY}

Confirmed(answer) ==
    LET response == IF answer.err THEN <<"n", "o">> ELSE answer.text
    IN  ToLower(TrimSpace(response)) \in {ansYes, ansY}

InitRun ==
    /\ goos = "linux"
    /\ remote \in {[err |-> TRUE, names |-> {}]}
                  \cup {[err |-> FALSE, names |-> N] : N \in SUBSET {nA, nEtc}}
    /\ fsys \in {f \in [RunDirPool -> UNION {RunListings(d) : d \in RunDirPool}] :
                    \A d \in RunDirPool : f[d] \in RunListings(d)}
    /\ cDirs \in SeqsUpTo({rootDir, dirD}, MaxRunDirs)
    /\ cResult = [err |-> "pending"]
    /\ \E rm, dryRun \in BOOLEAN :
         run = [pc |-> "start", rm |-> rm, dryRun |-> dryRun, dirs |-> << >>,
                err |-> "", valid |-> "", answer |-> NoAnswer,
                disk |-> RunDisk, del |-> EmptyResult, delCalls |-> 0]

RunReturn(e) == [run EXCEPT !.pc = "done", !.err = e]

\* Lines 713-728: the directories default to ".", --rm with --dry-run is
\* refused.
RunOptions ==
    /\ run.pc = "start"
    /\ run' = IF run.rm /\ run.dryRun
              THEN RunReturn("options")
              ELSE [run EXCEPT !.pc = "service",
                               !.dirs = IF cDirs = << >> THEN <<dotDir>> ELSE cDirs]
    /\ UNCHANGED <<sessVars, valVars, chkVars, call>>

\* Lines 732-735, createService: the configuration is validated, then the
\* connection tried with GetTorrents.
RunCreateService ==
    /\ run.pc = "service"
    /\ \E c \in RunConfigs :
         LET cfg == SetDefaults([c EXCEPT !.Host = TrimSpace(@)]) IN
         run' = IF ConfigValidate(cfg) # << >> THEN RunReturn("config")
                ELSE IF remote.err THEN RunReturn("connect")
                ELSE [run EXCEPT !.pc = "check"]
    /\ UNCHANGED <<sessVars, valVars, chkVars, call>>

\* Lines 738-742.
RunCheckDirectories ==
    /\ run.pc = "check"
    /\ LET r == CheckDirectories(run.dirs) IN
       /\ cResult' = r
       /\ run' = IF r.err # "" THEN RunReturn("check") ELSE [run EXCEPT !.pc = "report"]
    /\ UNCHANGED <<sessVars, valVars, goos, remote, fsys, cDirs, call>>

\* Lines 744-842: the results are printed and, with --output, written to a
\* file; a failed write ends the run.
RunReport ==
    /\ run.pc = "report"
    /\ \E out \in {"none", "written", "failed"} :
         run' = IF out = "failed" THEN RunReturn("output")
                ELSE [run EXCEPT !.pc = "validate"]
    /\ UNCHANGED <<sessVars, valVars, chkVars, call>>

\* Lines 845-860 and 953-960.
RunValidate ==
    /\ run.pc = "validate"
    /\ run' = IF ~WantsDeletion(run.rm, run.dryRun, cResult.MissingPaths)
              THEN RunReturn("")
              ELSE LET v == ValidateDeletionPaths(cResult.MissingPaths, run.dirs) IN
                   IF ProceedAfterValidation(v.err)
                   THEN [run EXCEPT !.pc = "preview", !.valid = v.err]
                   ELSE [RunReturn("validation") EXCEPT !.valid = v.err]
    /\ UNCHANGED <<sessVars, valVars, chkVars, call>>

\* Lines 862-911: the candidates and their total size are printed; a dry run
\* ends here.
RunPreview ==
    /\ run.pc = "preview"
    /\ run' = IF run.dryRun THEN RunReturn("") ELSE [run EXCEPT !.pc = "confirm"]
    /\ UNCHANGED <<sessVars, valVars, chkVars, call>>

\* Lines 912-922 and 948-951: the answer is read.
RunConfirm ==
    /\ run.pc = "confirm"
    /\ \E a \in Answers :
         run' = IF Confirmed(a)
                THEN [run EXCEPT !.pc = "deleting", !.answer = a]
                ELSE [RunReturn("") EXCEPT !.answer = a]
    /\ UNCHANGED <<sessVars, valVars, chkVars, call>>

\* Lines 923-947: DeleteFiles on the missing paths.
RunDelete ==
    /\ run.pc = "deleting"
    /\ \E locked \in SUBSET {pathDA, pathW} :
         LET d == DeleteFiles(cResult.MissingPaths, run.disk, locked) IN
         run' = [RunReturn("") EXCEPT !.disk = d.disk, !.del = d.result,
                                      !.delCalls = @ + 1]
    /\ UNCHANGED <<sessVars, valVars, chkVars, call>>

NextRun ==
    \/ RunOptions
    \/ RunCreateService
    \/ RunCheckDirectories
    \/ RunReport
    \/ RunValidate
    \/ RunPreview
    \/ RunConfirm
    \/ RunDelete

InitSpecRun == InitSession /\ IdleValidate /\ IdleCall /\ InitRun

SpecRun == InitSpecRun /\ [][NextRun]_vars

Running == run.pc # "idle"

\* The validation of the whole missing set of the run.
RunValidation == ValidateDeletionPaths(cResult.MissingPaths, run.dirs)

\* C12: the run is past the validation, or has called DeleteFiles, only if
\* ValidateDeletionPaths accepts the whole missing set; when it refuses one
\* candidate the run ends in the validation error with the disk as it was,
\* whatever --rm and --dry-run are.
ValidationPrecedesDeletion ==
    Running =>
        /\ (run.pc \in {"preview", "confirm", "deleting"} \/ run.delCalls > 0
                \/ run.disk # RunDisk) =>
               (CheckDone /\ cResult.err = "" /\ RunValidation.err = "")
        /\ (CheckDone /\ cResult.err = "" /\ RunValidation.err # "") =>
               /\ run.disk = RunDisk
               /\ run.delCalls = 0
               /\ (run.pc = "done" /\ run.err = "" ) =>
                      ~WantsDeletion(run.rm, run.dryRun, cResult.MissingPaths)

ValidationFailedWitness ==
    /\ Running
    /\ run.pc = "done"
    /\ run.err = "validation"
    /\ run.rm
    /\ cResult.MissingPaths = <<pathD, pathEtc, pathW>>
    /\ run.disk = RunDisk

\* C13: DeleteFiles is called, and the disk changed, only with --rm, without
\* --dry-run and after an answer read without error that is yes or y once
\* trimmed and lower-cased; a run that ended otherwise left the disk as it
\* was.
DeletionGated ==
    Running =>
        /\ (run.pc = "deleting" \/ run.delCalls > 0 \/ run.disk # RunDisk) =>
               /\ run.rm
               /\ ~run.dryRun
               /\ ~run.answer.err
               /\ ToLower(TrimSpace(run.answer.text)) \in {ansYes, ansY}
        /\ run.delCalls <= 1

DeletionGatedWitness ==
    /\ Running
    /\ run.pc = "done"
    /\ run.delCalls = 1
    /\ run.answer = [err |-> FALSE, text |-> <<"Y", "e", "s">>]
    /\ run.disk # RunDisk
    /\ run.del.SuccessCount = 2

(***************************************************************************)
(* utils.SanitizeString.  A string is the sequence of what ranging over it *)
(* decodes: a code point for each well-formed rune, BadByte for a byte     *)
(* that is not part of one.                                                *)
(***************************************************************************)
LTRMark == 8206
RTLMark == 8207
LRE == 8234
RLE == 8235
PDF == 8236
LRO == 8237
RLO == 8238

RuneError == 65533
BadByte == 0 - 1

\* The rune range yields for an element of the string.
Decode(c) == IF c = BadByte THEN RuneError ELSE c

\* unicode.IsControl: the category Cc.
IsControl(r) == r \in 0..31 \/ r \in 127..159

KeptControls == {9, 10, 13}

BidiMarks == {LTRMark, RTLMark, LRE, RLE, PDF, LRO, RLO}

\* Every control character skipped, the white space among them too.
SkippedAllControls(r) == IsControl(r) \/ r \in BidiMarks

\* The two tests of the loop body: the rune is skipped.
Skipped(r) == (IsControl(r) /\ r \notin KeptControls) \/ r \in BidiMarks

RECURSIVE SanitizeString(_)
SanitizeString(s) ==
    IF s = << >> THEN << >>
    ELSE LET r == Decode(Head(s)) IN
         IF Skipped(r) THEN SanitizeString(Tail(s))
         ELSE <<r>> \o SanitizeString(Tail(s))

(***************************************************************************)
(* SanitizeString applied to drawn strings, and again to its result.       *)
(***************************************************************************)
MaxStrLen == 3

\* U+0001, tab, newline, carriage return, A, DEL, U+0085, the marks at both
\* ends of each range, U+202F next to them, U+FFFD and a stray byte.
StringPool == {1, 9, 10, 13, 65, 127, 133, LTRMark, RTLMark, LRE, RLO, RLO + 1,
               RuneError, BadByte}

InitSanitize ==
    call \in {[fn |-> "SanitizeString", done |-> FALSE, s |-> s] :
                 s \in SeqsUpTo(StringPool, MaxStrLen)}

Sanitize ==
    /\ call.fn = "SanitizeString"
    /\ ~call.done
    /\ LET once == SanitizeString(call.s) IN
       call' = [fn |-> "SanitizeString", done |-> TRUE, s |-> call.s,
                out |-> once, again |-> SanitizeString(once)]
    /\ UNCHANGED notCall

NextSanitize == Sanitize

InitSpecSanitize ==
    InitSession /\ IdleValidate /\ IdleCheck /\ InitSanitize /\ IdleRun

SpecSanitize == InitSpecSanitize /\ [][NextSanitize]_vars

IsKeptControl(c) == c \in KeptControls

\* C15: sanitizing a sanitized string changes nothing; the tabs, newlines
\* and carriage returns of the input are those of the output, in order; and
\* the output holds no other control character and no bidi mark.
SanitizeIdempotent ==
    (call.fn = "SanitizeString" /\ call.done) =>
        /\ call.again = call.out
        /\ SelectSeq(call.out, IsKeptControl) = SelectSeq(call.s, IsKeptControl)
        /\ \A i \in 1..Len(call.out) :
               /\ IsControl(call.out[i]) => call.out[i] \in KeptControls
               /\ call.out[i] \notin BidiMarks

SanitizeWitness ==
    /\ call.fn = "SanitizeString"
    /\ call.done
    /\ call.s = <<9, 1, LTRMark>>
    /\ call.out = <<9>>

(***************************************************************************)
(* Path strings.  A string is a sequence of characters; "^A" stands for    *)
(* U+0001 and "LRM" for U+200E.  filepath.Join works on strings: the       *)
(* elements are joined with "/" and the result is cleaned.                 *)
(***************************************************************************)
CodePoint(c) ==
    CASE c = "^A" -> 1 [] c = "LRM" -> LTRMark [] c = "/" -> 47
      [] c = "M" -> 77 [] c = "Z" -> 90 [] c = "m" -> 109
      [] OTHER -> Ord(c)

CodePoints(s) == [i \in 1..Len(s) |-> CodePoint(s[i])]

\* The components of a path string: the pieces between the separators.
RECURSIVE SplitPath(_, _)
SplitPath(s, piece) ==
    IF s = << >> THEN (IF piece = << >> THEN << >> ELSE <<piece>>)
    ELSE IF Head(s) = "/"
         THEN (IF piece = << >> THEN << >> ELSE <<piece>>) \o SplitPath(Tail(s), << >>)
         ELSE SplitPath(Tail(s), Append(piece, Head(s)))

ParsePath(s) == [abs |-> s # << >> /\ Head(s) = "/", comps |-> SplitPath(s, << >>)]

RECURSIVE JoinComps(_)
JoinComps(comps) ==
    IF comps = << >> THEN << >>
    ELSE IF Len(comps) = 1 THEN comps[1]
    ELSE comps[1] \o <<"/">> \o JoinComps(Tail(comps))

\* The string of a cleaned path.
FormatPath(path) ==
    IF path.abs THEN <<"/">> \o JoinComps(path.comps)
    ELSE IF path.comps = << >> THEN <<".">>
    ELSE JoinComps(path.comps)

\* filepath.Join of two strings: empty elements are ignored, "" if both are.
JoinStrings(a, b) ==
    IF a = << >> /\ b = << >> THEN << >>
    ELSE IF a = << >> THEN FormatPath(Clean(ParsePath(b)))
    ELSE IF b = << >> THEN FormatPath(Clean(ParsePath(a)))
    ELSE FormatPath(Clean(ParsePath(a \o <<"/">> \o b)))

\* The < of Go strings, on code points.
RECURSIVE StringLess(_, _)
StringLess(x, y) ==
    IF y = << >> THEN FALSE
    ELSE IF x = << >> THEN TRUE
    ELSE IF Head(x) # Head(y) THEN Head(x) < Head(y)
    ELSE StringLess(Tail(x), Tail(y))

RECURSIVE InsertSorted(_, _)
InsertSorted(sorted, x) ==
    IF sorted = << >> THEN <<x>>
    ELSE IF StringLess(x, Head(sorted)) THEN <<x>> \o sorted
    ELSE <<Head(sorted)>> \o InsertSorted(Tail(sorted), x)

\* The paths left in the order of the daemon.
Unsorted(paths) == paths

\* sort.Strings
RECURSIVE SortStrings(_)
SortStrings(paths) ==
    IF paths = << >> THEN << >>
    ELSE InsertSorted(SortStrings(Tail(paths)), Head(paths))

(***************************************************************************)
(* TransmissionClient.GetAllTorrentPaths.                                  *)
(***************************************************************************)
TorrentPath(t) == SanitizeString(CodePoints(JoinStrings(t.DownloadDir, t.Name)))

GetAllTorrentPaths(fetch) ==
    IF fetch.err THEN [err |-> TRUE, paths |-> << >>]
    ELSE [err |-> FALSE,
          paths |-> SortStrings([i \in 1..Len(fetch.torrents) |->
                                    TorrentPath(fetch.torrents[i])])]

(***************************************************************************)
(* GetAllTorrentPaths called twice, the daemon listing the same items in   *)
(* two orders.                                                             *)
(***************************************************************************)
MaxTorrents == 3

strD == <<"/", "d">>
strM == <<"/", "m">>

TorrentPool ==
    { [DownloadDir |-> strD, Name |-> <<"Z">>],
      [DownloadDir |-> strD, Name |-> <<"A">>],
      [DownloadDir |-> strM, Name |-> <<"M">>],
      [DownloadDir |-> strD \o <<"/">>, Name |-> <<"A", "^A">>],
      [DownloadDir |-> << >>, Name |-> <<"a", "LRM">>],
      [DownloadDir |-> strM, Name |-> <<".", ".", "/", "d", "/", "Z">>] }

\* The orders in which the daemon may list the items of ts.
Reorderings(ts) ==
    { [i \in 1..Len(ts) |-> ts[p[i]]] :
        p \in {q \in [1..Len(ts) -> 1..Len(ts)] :
                  \A i, j \in 1..Len(ts) : q[i] = q[j] => i = j} }

InitListPaths ==
    \E ts \in SeqsUpTo(TorrentPool, MaxTorrents) :
        call \in ({[fn |-> "GetAllTorrentPaths", done |-> FALSE,
                    first |-> [err |-> FALSE, torrents |-> ts],
                    second |-> [err |-> FALSE, torrents |-> us]] :
                      us \in Reorderings(ts)}
                  \cup {[fn |-> "GetAllTorrentPaths", done |-> FALSE,
                         first |-> [err |-> TRUE, torrents |-> << >>],
                         second |-> [err |-> FALSE, torrents |-> ts]]})

ListPaths ==
    /\ call.fn = "GetAllTorrentPaths"
    /\ ~call.done
    /\ call' = [fn |-> "GetAllTorrentPaths", done |-> TRUE,
                first |-> call.first, second |-> call.second,
                out1 |-> GetAllTorrentPaths(call.first),
                out2 |-> GetAllTorrentPaths(call.second)]
    /\ UNCHANGED notCall

NextListPaths == ListPaths

InitSpecListPaths ==
    InitSession /\ IdleValidate /\ IdleCheck /\ InitListPaths /\ IdleRun

SpecListPaths == InitSpecListPaths /\ [][NextListPaths]_vars

Occurrences(seq, x) == Cardinality({i \in 1..Len(seq) : seq[i] = x})

\* C16: a successful listAllPaths returns one path per remote item, the
\* sanitized join of its directory and name, in ascending order; the same
\* items listed in another order give the same sequence.
ListAllPathsSorted ==
    (call.fn = "GetAllTorrentPaths" /\ call.done /\ ~call.second.err) =>
        LET ts == call.second.torrents
            out == call.out2.paths
            want == [i \in 1..Len(ts) |-> TorrentPath(ts[i])]
        IN  /\ ~call.out2.err
            /\ Len(out) = Len(ts)
            /\ \A i \in 1..Len(ts) : Occurrences(out, want[i]) = Occurrences(want, want[i])
            /\ \A i \in 1..(Len(out) - 1) : ~StringLess(out[i + 1], out[i])
            /\ ~call.first.err => call.out1 = call.out2

ListAllPathsWitness ==
    /\ call.fn = "GetAllTorrentPaths"
    /\ call.done
    /\ call.first.torrents = <<[DownloadDir |-> strD, Name |-> <<"Z">>],
                               [DownloadDir |-> strD \o <<"/">>, Name |-> <<"A", "^A">>],
                               [DownloadDir |-> strM, Name |-> <<"M">>]>>
    /\ call.second.torrents[1] = [DownloadDir |-> strM, Name |-> <<"M">>]
    /\ call.out1.paths = <<<<47, 100, 47, 65>>, <<47, 100, 47, 90>>, <<47, 109, 47, 77>>>>
    /\ call.out2 = call.out1

-----------------------------------------------------------------------------
\* Errors of the RPC transport: errors.NewTransmissionError.

NoCause == ""

\* The constructor: a switch on the status code, then the record.
NewTransmissionError(statusCode, host, port, err) ==
    LET message ==
          CASE statusCode = 401 ->
                 "authentication failed: invalid username or password"
            [] statusCode = 403 ->
                 "access forbidden: insufficient permissions"
            [] statusCode = 404 ->
                 "RPC endpoint not found. Ensure Transmission is running"
            [] statusCode = 409 ->
                 "session conflict: invalid session ID"
            [] statusCode = 500 ->
                 "Transmission server error (500)"
            [] OTHER ->
                 IF statusCode >= 400
                 THEN "HTTP " \o ToString(statusCode) \o " error"
                 ELSE "unknown error"
    IN [StatusCode |-> statusCode, Host |-> host, Port |-> port,
        Message |-> message, Err |-> err]

\* An error value: its dynamic type and what it holds.
TransmissionErrorType == "*errors.TransmissionError"

AsError(e) == [type |-> TransmissionErrorType, val |-> e]

AuthMessage == "authentication failed: invalid username or password"

\* The predicate that reads the message.
IsAuthByMessage(err) ==
    err.type = TransmissionErrorType /\ err.val.Message = AuthMessage

\* err.(*TransmissionError), then the status.
IsAuthenticationError(err) ==
    err.type = TransmissionErrorType /\ err.val.StatusCode = 401

IsConnectionError(err) ==
    err.type = TransmissionErrorType /\ err.val.StatusCode = 0

\* The text of TransmissionError.Error().
ErrorText(e) ==
    LET head == e.Message \o " at " \o e.Host \o ":" \o ToString(e.Port) IN
    IF e.Err # NoCause THEN head \o ": " \o e.Err ELSE head

StatusCodes == {0, 200, 302, 399, 400, 401, 403, 404, 409, 418, 500, 502, 503}

ErrorHosts == {"localhost", "10.0.0.1"}

ErrorPorts == {DefaultPort, MinPort, MaxPort}

Causes == {NoCause, "connection refused"}

InitError ==
    call \in {[fn |-> "NewTransmissionError", done |-> FALSE,
               statusCode |-> s, host |-> h, port |-> p, err |-> e] :
                 s \in StatusCodes, h \in ErrorHosts, p \in ErrorPorts,
                 e \in Causes}

MakeError ==
    /\ call.fn = "NewTransmissionError"
    /\ ~call.done
    /\ LET e == NewTransmissionError(call.statusCode, call.host, call.port,
                                     call.err) IN
       call' = [fn |-> "NewTransmissionError", done |-> TRUE,
                statusCode |-> call.statusCode, host |-> call.host,
                port |-> call.port, err |-> call.err,
                out |-> e, text |-> ErrorText(e),
                isAuth |-> IsAuthenticationError(AsError(e)),
                isConn |-> IsConnectionError(AsError(e))]
    /\ UNCHANGED notCall

NextError == MakeError

InitSpecError ==
    InitSession /\ IdleValidate /\ IdleCheck /\ InitError /\ IdleRun

SpecError == InitSpecError /\ [][NextError]_vars

\* The meaning a status has in the table of the transport's contract.
TableMeaning(statusCode) ==
    CASE statusCode = 401 -> "authentication failed"
      [] statusCode = 403 -> "access forbidden"
      [] statusCode = 404 -> "RPC endpoint not found"
      [] statusCode = 409 -> "session conflict"
      [] statusCode = 500 -> "daemon server error"
      [] statusCode = 0 -> "connection error"
      [] OTHER -> "generic HTTP error " \o ToString(statusCode)

\* The meaning a message of the constructor states.
MessageMeaning(e) ==
    CASE e.Message = "authentication failed: invalid username or password" ->
           "authentication failed"
      [] e.Message = "access forbidden: insufficient permissions" ->
           "access forbidden"
      [] e.Message = "RPC endpoint not found. Ensure Transmission is running" ->
           "RPC endpoint not found"
      [] e.Message = "session conflict: invalid session ID" ->
           "session conflict"
      [] e.Message = "Transmission server error (500)" ->
           "daemon server error"
      [] e.Message = "HTTP " \o ToString(e.StatusCode) \o " error" ->
           "generic HTTP error " \o ToString(e.StatusCode)
      [] OTHER -> e.Message

\* C17: the error carries the given status, host, port and cause, and for
\* status 0 and every status of 400 and above its message states the meaning
\* the table gives that status; status 0 states a connection error.
StatusMappingExact ==
    (call.fn = "NewTransmissionError" /\ call.done) =>
        /\ call.out.StatusCode = call.statusCode
        /\ call.out.Host = call.host
        /\ call.out.Port = call.port
        /\ call.out.Err = call.err
        /\ (call.statusCode = 0 \/ call.statusCode >= 400) =>
               MessageMeaning(call.out) = TableMeaning(call.statusCode)

-----------------------------------------------------------------------------
(***************************************************************************)
(* TorrentService.CompareLocalWithTransmission: the entries of one         *)
(* directory against the paths of the daemon, by absolute path.            *)
(***************************************************************************)

\* filepath.Abs(filepath.Join(dir, name)) as the string the map is asked for.
LocalAbsPath(dir, name) ==
    CodePoints(FormatPath(Abs(ParsePath(JoinStrings(dir, name)))))

Range(s) == {s[i] : i \in 1..Len(s)}

\* A path with its upper-case letters lowered.
FoldPath(p) == [i \in 1..Len(p) |-> IF p[i] \in 65..90 THEN p[i] + 32 ELSE p[i]]

\* The lookup matching a path that differs in case only.
HasPathFolded(torrentMap, absPath) ==
    \E q \in torrentMap : FoldPath(q) = FoldPath(absPath)

\* torrentMap[absPath]
HasPath(torrentMap, absPath) == absPath \in torrentMap

\* The loop over the entries: the lists so far and the map, from entry i on.
RECURSIVE CompareFrom(_, _, _, _)
CompareFrom(dir, entries, i, acc) ==
    IF i > Len(entries) THEN acc
    ELSE LET absPath == LocalAbsPath(dir, entries[i]) IN
         IF HasPath(acc.torrentMap, absPath)
         THEN CompareFrom(dir, entries, i + 1,
                  [acc EXCEPT !.InBoth = Append(@, absPath),
                              !.torrentMap = @ \ {absPath}])
         ELSE CompareFrom(dir, entries, i + 1,
                  [acc EXCEPT !.LocalOnly = Append(@, absPath)])

\* The orders in which a range over a map may yield its keys.
KeyOrders(S) ==
    {s \in [1..Cardinality(S) -> S] : \A i, j \in 1..Cardinality(S) :
                                         s[i] = s[j] => i = j}

\* The results the call may give: one for each order of the last loop.
CompareLocalWithTransmission(fetch, dir, listing) ==
    LET got == GetAllTorrentPaths(fetch) IN
    IF got.err THEN {[err |-> "failed to retrieve torrent paths"]}
    ELSE IF listing.err THEN {[err |-> "failed to read directory"]}
    ELSE LET acc == CompareFrom(dir, listing.entries, 1,
                        [InBoth |-> << >>, LocalOnly |-> << >>,
                         torrentMap |-> Range(got.paths)])
         IN {[err |-> "",
              InTransmissionOnly |-> only,
              LocalOnly |-> acc.LocalOnly,
              InBoth |-> acc.InBoth,
              TotalLocal |-> Len(listing.entries),
              TotalTransmission |-> Len(got.paths)] :
                only \in KeyOrders(acc.torrentMap)}

MaxEntries == 3

CompareDirs == {strD, <<".", ".", "/", "d">>, <<"d">>}

EntryNames == {<<"A">>, <<"Z">>, <<"a">>, <<"M">>}

\* The items of the daemon: two of them have the same sanitized path.
CompareTorrents ==
    { [DownloadDir |-> strD, Name |-> <<"Z">>],
      [DownloadDir |-> strD, Name |-> <<"A">>],
      [DownloadDir |-> strM, Name |-> <<"M">>],
      [DownloadDir |-> strD \o <<"/">>, Name |-> <<"A", "^A">>] }

\* os.ReadDir: the entries of a directory, sorted by filename.
ReadDirs ==
    {[err |-> FALSE, entries |-> es] :
        es \in {s \in SeqsUpTo(EntryNames, MaxEntries) :
                  \A i \in 1..(Len(s) - 1) :
                     StringLess(CodePoints(s[i]), CodePoints(s[i + 1]))}}
    \cup {[err |-> TRUE, entries |-> << >>]}

InitCompare ==
    call \in {[fn |-> "CompareLocalWithTransmission", done |-> FALSE,
               fetch |-> f, dir |-> d, listing |-> l] :
                 f \in {[err |-> FALSE, torrents |-> ts] :
                           ts \in SeqsUpTo(CompareTorrents, MaxTorrents)}
                       \cup {[err |-> TRUE, torrents |-> << >>]},
                 d \in CompareDirs, l \in ReadDirs}

Compare ==
    /\ call.fn = "CompareLocalWithTransmission"
    /\ ~call.done
    /\ \E r \in CompareLocalWithTransmission(call.fetch, call.dir, call.listing) :
          call' = [fn |-> "CompareLocalWithTransmission", done |-> TRUE,
                   fetch |-> call.fetch, dir |-> call.dir,
                   listing |-> call.listing, out |-> r]
    /\ UNCHANGED notCall

NextCompare == Compare

InitSpecCompare ==
    InitSession /\ IdleValidate /\ IdleCheck /\ InitCompare /\ IdleRun

SpecCompare == InitSpecCompare /\ [][NextCompare]_vars

CompareDone ==
    call.fn = "CompareLocalWithTransmission" /\ call.done /\ call.out.err = ""

\* The sanitized joined paths of the daemon's items.
RemotePaths ==
    {TorrentPath(call.fetch.torrents[i]) : i \in 1..Len(call.fetch.torrents)}

\* The absolute paths of the entries, in the order of the listing.
LocalPaths ==
    [i \in 1..Len(call.listing.entries) |->
        LocalAbsPath(call.dir, call.listing.entries[i])]

Injective(s) == \A i, j \in 1..Len(s) : s[i] = s[j] => i = j

\* C19: every entry's absolute path is in exactly one of InBoth and
\* LocalOnly, in InBoth exactly when it equals a path of the daemon; the two
\* lengths add up to TotalLocal; InTransmissionOnly holds, once each, the
\* paths of the daemon that equal no entry's absolute path.
ComparePartition ==
    CompareDone =>
        LET r == call.out IN
        /\ r.TotalLocal = Len(call.listing.entries)
        /\ Len(r.InBoth) + Len(r.LocalOnly) = r.TotalLocal
        /\ Injective(r.InBoth) /\ Injective(r.LocalOnly)
        /\ Range(r.InBoth) \cap Range(r.LocalOnly) = {}
        /\ Range(r.InBoth) = Range(LocalPaths) \cap RemotePaths
        /\ Range(r.LocalOnly) = Range(LocalPaths) \ RemotePaths
        /\ Injective(r.InTransmissionOnly)
        /\ Range(r.InTransmissionOnly) = RemotePaths \ Range(LocalPaths)

\* /d holds Z and a, the daemon has /d/A, /d/Z and /m/M: Z is in both, a is
\* local only although /d/A differs from it in case only, and two paths are
\* the daemon's only.
ComparePartitionWitness ==
    /\ CompareDone
    /\ call.listing.entries = << <<"Z">>, <<"a">> >>
    /\ call.out.InBoth = << CodePoints(<<"/", "d", "/", "Z">>) >>
    /\ call.out.LocalOnly = << CodePoints(<<"/", "d", "/", "a">>) >>
    /\ Range(call.out.InTransmissionOnly) =
          {CodePoints(<<"/", "d", "/", "A">>), CodePoints(<<"/", "m", "/", "M">>)}
    /\ call.dir = <<".", ".", "/", "d">>

-----------------------------------------------------------------------------
(***************************************************************************)
(* Handshakes that fail.                                                   *)
(***************************************************************************)

\* The responses to a handshake that are hard failures: an error status
\* other than 409, or no session header on a 409 or a successful response.
HardFailure(status, header) ==
    \/ status >= 400 /\ status # 409
    \/ header = "" /\ (status = 409 \/ (status > 0 /\ status < 400))

\* With no token cached, a caller that moves on in getSessionID moves to
\* the write lock and from there into a handshake of its own.
HandshakesWhenNoSession ==
    \A q \in Callers :
        sessionID = "" =>
            /\ (pc[q] = "getTok" /\ pc'[q] # "getTok") => pc'[q] = "wantLock"
            /\ (pc[q] = "wantLock" /\ pc'[q] # "wantLock") =>
                   /\ pc'[q] = "handshaking"
                   /\ sessionMu' = q
                   /\ hsMine'[q] = hsMine[q] + 1

\* C20: when the response to a handshake is a hard failure, GetSessionID has
\* returned an error and no token, the caller's request has ended in error,
\* no token is cached and the lock is free; and whenever no token is cached,
\* a caller asking for the token performs a handshake.
HardFailureLeavesNoSession ==
    /\ [](\A status \in Statuses, header \in Headers :
             (last.kind = "handshake" /\ last.status = status
                 /\ last.text = header /\ HardFailure(status, header)) =>
                 /\ ClassifyHandshake(status, header).err # ""
                 /\ ClassifyHandshake(status, header).token = ""
                 /\ last.err # ""
                 /\ sessionID = ""
                 /\ sessionMu = 0
                 /\ pc[last.p] = "done"
                 /\ outcome[last.p] = "error")
    /\ [][HandshakesWhenNoSession]_vars

\* No handshake has succeeded, one caller's request has ended in error after
\* its handshake, and another caller is in a handshake of its own.
HardFailureWitness ==
    \E p, q \in Callers :
        /\ p # q
        /\ hsOK = 0
        /\ hsMine[p] = 1
        /\ outcome[p] = "error"
        /\ pc[q] = "handshaking"
        /\ sessionID = ""

-----------------------------------------------------------------------------
(***************************************************************************)
(* Authenticated calls that fail.                                          *)
(***************************************************************************)

\* The error of a status that is no conflict.
ErrorOfStatus(status) ==
    CASE status = 0 -> "transport"
      [] status = 401 -> "auth"
      [] status = 403 -> "forbidden"
      [] status = 404 -> "notfound"
      [] status = 500 -> "server"
      [] OTHER -> "http"

\* C21: an authenticated call that fails in the transport or is answered
\* with a status of 400 or more other than 409 ends the request with the
\* error of that status; the request makes no call after it and has used
\* its retry only if a conflict came before, so a request whose first call
\* fails this way has made exactly one authenticated call.
OnlyConflictRetries ==
    /\ (last.kind = "auth"
          /\ (last.status = 0 \/ (last.status >= 400 /\ last.status # 409))) =>
           /\ last.err = ErrorOfStatus(last.status)
           /\ pc[last.p] = "done"
           /\ outcome[last.p] = "error"
           /\ replies[last.p][Len(replies[last.p])] = "other"
    /\ \A p \in Callers :
          /\ \A i \in 1..Len(replies[p]) :
                replies[p][i] = "other" => /\ i = Len(replies[p])
                                           /\ pc[p] = "done"
                                           /\ outcome[p] = "error"
          /\ (replies[p] # << >> /\ replies[p][1] = "other") =>
                ~retried[p] /\ Len(replies[p]) = 1
          /\ retried[p] =>
                (replies[p] # << >> /\ replies[p][1] = Conflict409)

\* A first authenticated call answered 401 has ended the request.
OnlyConflictRetriesWitness ==
    /\ last.kind = "auth"
    /\ last.status = 401
    /\ last.err = "auth"
    /\ replies[last.p] = <<"other">>
    /\ outcome[last.p] = "error"

-----------------------------------------------------------------------------
(***************************************************************************)
(* GetTorrents: what it returns for a response.  A payload is the decoded  *)
(* body: whether it is well-formed JSON, its result field and its items.   *)
(***************************************************************************)
NilTorrents == [nil |-> TRUE, items |-> << >>]

GetTorrentsReturn(status, payload) ==
    LET byStatus == ClassifyAuth(status, "success")
        e == IF byStatus # "" THEN byStatus
             ELSE IF ~payload.wellFormed THEN "decode"
             ELSE ClassifyAuth(status, payload.result)
    IN IF e # "" THEN [err |-> e, torrents |-> NilTorrents]
       ELSE [err |-> "", torrents |-> [nil |-> FALSE, items |-> payload.torrents]]

PayloadResults == {"success", "error", ""}

Payloads ==
    {[wellFormed |-> w, result |-> r, torrents |-> ts] :
        w \in BOOLEAN, r \in PayloadResults,
        ts \in SeqsUpTo(CompareTorrents, MaxTorrents)}

InitGetTorrents ==
    call \in {[fn |-> "GetTorrents", done |-> FALSE, status |-> s, payload |-> b] :
                 s \in Statuses, b \in Payloads}

ReadTorrents ==
    /\ call.fn = "GetTorrents"
    /\ ~call.done
    /\ call' = [fn |-> "GetTorrents", done |-> TRUE, status |-> call.status,
                payload |-> call.payload,
                out |-> GetTorrentsReturn(call.status, call.payload)]
    /\ UNCHANGED notCall

NextGetTorrents == ReadTorrents

InitSpecGetTorrents ==
    InitSession /\ IdleValidate /\ IdleCheck /\ InitGetTorrents /\ IdleRun

SpecGetTorrents == InitSpecGetTorrents /\ [][NextGetTorrents]_vars

\* C22: a response with a successful status and a well-formed payload whose
\* result is not "success" gives an error and no items; with result
\* "success" it gives no error and the items of the payload, the empty list
\* when the payload has none.
LogicalResultChecked ==
    (call.fn = "GetTorrents" /\ call.done
        /\ call.status > 0 /\ call.status < 400 /\ call.payload.wellFormed) =>
        IF call.payload.result = "success"
        THEN /\ call.out.err = ""
             /\ ~call.out.torrents.nil
             /\ call.out.torrents.items = call.payload.torrents
        ELSE /\ call.out.err = "protocol"
             /\ call.out.torrents.nil
             /\ call.out.torrents.items = << >>

\* A 200 response with result "error" that carries an item has been read.
LogicalResultWitness ==
    /\ call.fn = "GetTorrents"
    /\ call.done
    /\ call.status = 200
    /\ call.payload.wellFormed
    /\ call.payload.result = "error"
    /\ call.payload.torrents # << >>
    /\ call.out.err = "protocol"

-----------------------------------------------------------------------------
(***************************************************************************)
(* The order of the steps of DeleteFiles.                                  *)
(***************************************************************************)

\* The positions in the log of the events ev of candidate i.
EventsAt(log, ev, i) == {k \in 1..Len(log) : log[k].ev = ev /\ log[k].i = i}

\* C23: the progress callback is called once for every candidate, the k-th
\* call with current = k, total = len(paths) and the k-th path; every
\* candidate is looked at whatever happened to those before it, its removal
\* is attempted exactly when its stat succeeded, and the call of the
\* callback for a candidate comes before the attempt to remove it.
DeleteEveryCandidateInOrder ==
    DeleteDone =>
        LET calls == call.out.calls
            log == call.out.log
            n == Len(call.paths)
        IN  /\ Len(calls) = n
            /\ \A k \in 1..n : /\ calls[k].current = k
                               /\ calls[k].total = n
                               /\ calls[k].path = call.paths[k]
            /\ \A i \in 1..n :
                  /\ Cardinality(EventsAt(log, "stat", i)) = 1
                  /\ Cardinality(EventsAt(log, "progress", i)) = 1
                  /\ Cardinality(EventsAt(log, "remove", i)) <= 1
                  /\ \A s \in EventsAt(log, "stat", i),
                        c \in EventsAt(log, "progress", i) : s < c
                  /\ \A c \in EventsAt(log, "progress", i),
                        r \in EventsAt(log, "remove", i) : c < r
                  /\ \A j \in 1..n : \A a \in EventsAt(log, "progress", i),
                                        b \in EventsAt(log, "progress", j) :
                                        i < j => a < b
            /\ Len(SelectSeq(log, LAMBDA e : e.ev = "remove"))
                  + Cardinality({k \in 1..Len(call.out.result.Failed) :
                                    call.out.result.Failed[k].Error = "stat"}) = n

\* Three candidates: the first does not exist, the second refuses removal,
\* and the third has been removed.
DeleteEveryCandidateWitness ==
    /\ DeleteDone
    /\ call.paths = <<pathC, pathA, pathB>>
    /\ ~Exists(call.disk, pathC)
    /\ Exists(call.disk, pathA) /\ pathA \in call.locked
    /\ Exists(call.disk, pathB) /\ pathB \notin call.locked
    /\ Len(call.out.calls) = 3
    /\ [ev |-> "remove", i |-> 3] = call.out.log[Len(call.out.log)]
    /\ ~Exists(call.out.disk, pathB)

-----------------------------------------------------------------------------
\* C29: every record of Success has no error and, for the first candidate,
\* the size utils.GetSize measures for it on the disk; every record of
\* Failed has an error.
OutcomeRecordsAgree ==
    DeleteDone =>
        LET r == call.out.result IN
        /\ \A k \in 1..Len(r.Success) : r.Success[k].Error = ""
        /\ \A k \in 1..Len(r.Failed) : r.Failed[k].Error # ""
        /\ (r.Success # << >> /\ r.Success[1].Path = call.paths[1]) =>
               r.Success[1].Size = GetSizeOn(call.disk, call.paths[1]).size

-----------------------------------------------------------------------------
(***************************************************************************)
(* The predicates on errors, applied to error values of several types: a   *)
(* *TransmissionError with any status and any message, an error of another *)
(* type with the text of one, an error wrapping one, and nil.              *)
(***************************************************************************)
ErrorMessages == {AuthMessage, "unknown error", "connection refused"}

ErrorStructs ==
    {[StatusCode |-> s, Host |-> "localhost", Port |-> DefaultPort,
      Message |-> m, Err |-> c] :
        s \in StatusCodes, m \in ErrorMessages, c \in Causes}

ErrorValues ==
    {AsError(e) : e \in ErrorStructs}
    \cup {[type |-> "*fmt.wrapError", val |-> e] : e \in ErrorStructs}
    \cup {[type |-> "*errors.errorString", val |-> [Message |-> m]] :
             m \in ErrorMessages}
    \cup {[type |-> "nil", val |-> [Message |-> ""]]}

InitPredicates ==
    call \in {[fn |-> "IsError", done |-> FALSE, err |-> e] : e \in ErrorValues}

ApplyPredicates ==
    /\ call.fn = "IsError"
    /\ ~call.done
    /\ call' = [fn |-> "IsError", done |-> TRUE, err |-> call.err,
                isAuth |-> IsAuthenticationError(call.err),
                isConn |-> IsConnectionError(call.err)]
    /\ UNCHANGED notCall

NextPredicates == ApplyPredicates

InitSpecPredicates ==
    InitSession /\ IdleValidate /\ IdleCheck /\ InitPredicates /\ IdleRun

SpecPredicates == InitSpecPredicates /\ [][NextPredicates]_vars

\* C24: IsAuthenticationError is true exactly for a *TransmissionError with
\* status 401 and IsConnectionError exactly for one with status 0, whatever
\* the message; both are false for an error of any other type.
PredicatesByStatus ==
    (call.fn = "IsError" /\ call.done) =>
        /\ call.isAuth <=> (call.err.type = TransmissionErrorType
                               /\ call.err.val.StatusCode = 401)
        /\ call.isConn <=> (call.err.type = TransmissionErrorType
                               /\ call.err.val.StatusCode = 0)
        /\ call.err.type # TransmissionErrorType =>
               ~call.isAuth /\ ~call.isConn

\* A 404 error whose message is that of an authentication failure has been
\* asked about.
PredicatesWitness ==
    /\ call.fn = "IsError"
    /\ call.done
    /\ call.err.type = TransmissionErrorType
    /\ call.err.val.StatusCode = 404
    /\ call.err.val.Message = AuthMessage
    /\ ~call.isAuth

-----------------------------------------------------------------------------
(***************************************************************************)
(* createService, step by step: the configuration is built from the flags, *)
(* defaulted and validated; only then the client is made and GetTorrents   *)
(* called to try the connection.                                           *)
(***************************************************************************)
FlagPorts == Ports \cup {MinPort - 2}

FlagConfigs ==
    [Host : Hosts, Port : FlagPorts, User : Users, Password : Passwords,
     Dirs : DirLists]

ConnectOutcomes == {"", "auth", "connection", "other"}

InitCreate ==
    call \in {[fn |-> "createService", done |-> FALSE, pc |-> "validate",
               flags |-> c, cfg |-> c, clientMade |-> FALSE,
               transportCalls |-> 0, err |-> ""] : c \in FlagConfigs}

\* Lines 668-681.
CreateValidate ==
    /\ call.fn = "createService"
    /\ call.pc = "validate"
    /\ LET cfg == SetDefaults([call.flags EXCEPT !.Host = TrimSpace(@)]) IN
       call' = IF ConfigValidate(cfg) # << >>
               THEN [call EXCEPT !.cfg = cfg, !.pc = "returned", !.done = TRUE,
                                 !.err = "invalid configuration"]
               ELSE [call EXCEPT !.cfg = cfg, !.pc = "connect"]
    /\ UNCHANGED notCall

\* Lines 689-709: the client and the service are made and the connection
\* tried.
CreateConnect ==
    /\ call.fn = "createService"
    /\ call.pc = "connect"
    /\ \E e \in ConnectOutcomes :
         call' = [call EXCEPT !.pc = "returned", !.done = TRUE,
                              !.clientMade = TRUE,
                              !.transportCalls = @ + 1,
                              !.err = e]
    /\ UNCHANGED notCall

NextCreate == CreateValidate \/ CreateConnect

InitSpecCreate ==
    InitSession /\ IdleValidate /\ IdleCheck /\ InitCreate /\ IdleRun

SpecCreate == InitSpecCreate /\ [][NextCreate]_vars

HasDuplicate(dirs) == \E i, j \in 1..Len(dirs) : i < j /\ dirs[i] = dirs[j]

MalformedHosts == {<<"h", "_", "1">>, <<"a", ".", ".", "b">>}

\* What no port may make invalid: the host, the credentials, the directories.
InvalidBesidesPort(flags) ==
    \/ TrimSpace(flags.Host) = << >>
    \/ flags.Host \in MalformedHosts
    \/ flags.User # << >> /\ flags.Password = << >>
    \/ HasDuplicate(flags.Dirs)

\* createService has returned a validation error without making the client
\* or calling the daemon.
RejectedBeforeCore ==
    call.pc = "returned" => /\ call.err = "invalid configuration"
                            /\ ~call.clientMade
                            /\ call.transportCalls = 0

\* The client is made and the daemon called only with a configuration that
\* Config.Validate accepts.
CoreOnlyAfterValidation ==
    (call.clientMade \/ call.transportCalls > 0 \/ call.pc = "connect") =>
        /\ ConfigValidate(call.cfg) = << >>
        /\ call.cfg.Port \in MinPort..MaxPort

-----------------------------------------------------------------------------
(***************************************************************************)
(* TransmissionClient.GetDownloadDirectories: the items are counted by     *)
(* their raw downloadDir, each key is sanitized, and the entries sorted by *)
(* path with sort.Slice.  The range over the map yields the keys in any    *)
(* order and sort.Slice is not stable, so entries of equal path may come   *)
(* out in either order.                                                    *)
(***************************************************************************)

\* Every key of the map counted once, whatever is stored there.
CountOnce(torrents, dir) == 1

\* dirMap[dir] after the loop over the items.
CountIn(torrents, dir) ==
    Cardinality({i \in 1..Len(torrents) : torrents[i].DownloadDir = dir})

DirEntryOf(torrents, dir) ==
    [Path |-> SanitizeString(CodePoints(dir)), Count |-> CountIn(torrents, dir)]

SortedByPath(dirs) ==
    \A i, j \in 1..Len(dirs) : i < j => ~StringLess(dirs[j].Path, dirs[i].Path)

\* The results the call may give.
GetDownloadDirectories(fetch) ==
    IF fetch.err THEN {[err |-> TRUE, dirs |-> << >>]}
    ELSE LET keys == {fetch.torrents[i].DownloadDir : i \in 1..Len(fetch.torrents)}
         IN {[err |-> FALSE, dirs |-> ds] :
               ds \in {[i \in 1..Len(o) |-> DirEntryOf(fetch.torrents, o[i])] :
                          o \in {k \in KeyOrders(keys) :
                                   SortedByPath([i \in 1..Len(k) |->
                                       DirEntryOf(fetch.torrents, k[i])])}}}

\* The items of the daemon: /d twice, /m, /d/ and /d followed by a
\* left-to-right mark.
DirTorrents ==
    { [DownloadDir |-> strD, Name |-> <<"A">>],
      [DownloadDir |-> strD, Name |-> <<"Z">>],
      [DownloadDir |-> strM, Name |-> <<"M">>],
      [DownloadDir |-> strD \o <<"/">>, Name |-> <<"A">>],
      [DownloadDir |-> strD \o <<"LRM">>, Name |-> <<"M">>] }

InitListDirs ==
    call \in {[fn |-> "GetDownloadDirectories", done |-> FALSE, fetch |-> f] :
                 f \in {[err |-> FALSE, torrents |-> ts] :
                           ts \in SeqsUpTo(DirTorrents, MaxTorrents)}
                       \cup {[err |-> TRUE, torrents |-> << >>]}}

\* The call made twice on the same items.
ListDirs ==
    /\ call.fn = "GetDownloadDirectories"
    /\ ~call.done
    /\ \E r1, r2 \in GetDownloadDirectories(call.fetch) :
          call' = [fn |-> "GetDownloadDirectories", done |-> TRUE,
                   fetch |-> call.fetch, out1 |-> r1, out2 |-> r2]
    /\ UNCHANGED notCall

NextListDirs == ListDirs

InitSpecListDirs ==
    InitSession /\ IdleValidate /\ IdleCheck /\ InitListDirs /\ IdleRun

SpecListDirs == InitSpecListDirs /\ [][NextListDirs]_vars

ListDirsDone ==
    call.fn = "GetDownloadDirectories" /\ call.done /\ ~call.out1.err

\* The raw storage directories of the items.
RawDirs ==
    {call.fetch.torrents[i].DownloadDir : i \in 1..Len(call.fetch.torrents)}

\* C26: the entries are those of the storage directories of the items, one
\* for each: its path is the sanitized directory and its count the number
\* of items stored there; they are sorted ascending by path and the counts
\* add up to the number of items.
DirectoriesGrouped ==
    ListDirsDone =>
        LET ds == call.out1.dirs
            ts == call.fetch.torrents
        IN  /\ Len(ds) = Cardinality(RawDirs)
            /\ \E o \in KeyOrders(RawDirs) :
                  \A i \in 1..Len(ds) :
                     /\ ds[i].Path = SanitizeString(CodePoints(o[i]))
                     /\ ds[i].Count =
                           Cardinality({k \in 1..Len(ts) : ts[k].DownloadDir = o[i]})
            /\ SortedByPath(ds)
            /\ SumSeq([i \in 1..Len(ds) |-> ds[i].Count]) = Len(ts)

\* Two items in /d and one in /m.
DirectoriesGroupedWitness ==
    /\ ListDirsDone
    /\ Len(call.fetch.torrents) = 3
    /\ call.out1.dirs = <<[Path |-> CodePoints(strD), Count |-> 2],
                          [Path |-> CodePoints(strM), Count |-> 1]>>

\* C30: no two entries have the same path, and two calls on the same items
\* return the same sequence.
DirectoriesDistinctDeterministic ==
    ListDirsDone =>
        /\ \A i, j \in 1..Len(call.out1.dirs) :
              call.out1.dirs[i].Path = call.out1.dirs[j].Path => i = j
        /\ call.out1 = call.out2

-----------------------------------------------------------------------------
(***************************************************************************)
(* utils.CalculateTotalSize on a disk.                                     *)
(***************************************************************************)

\* One round that adds what GetSize returned beside its error.
AddSizeDespiteError(acc, disk, path) ==
    LET sz == GetSizeOn(disk, path) IN
    IF sz.err THEN [acc EXCEPT !.totalSize = @ + sz.size, !.inaccessible = @ + 1]
    ELSE [acc EXCEPT !.totalSize = @ + sz.size]

\* One round of the loop.
AddSize(acc, disk, path) ==
    LET sz == GetSizeOn(disk, path) IN
    IF sz.err THEN [acc EXCEPT !.inaccessible = @ + 1]
    ELSE [acc EXCEPT !.totalSize = @ + sz.size]

RECURSIVE CalculateFrom(_, _, _, _)
CalculateFrom(acc, disk, paths, i) ==
    IF i > Len(paths) THEN acc
    ELSE CalculateFrom(AddSize(acc, disk, paths[i]), disk, paths, i + 1)

CalculateTotalSize(paths, disk) ==
    CalculateFrom([totalSize |-> 0, inaccessible |-> 0, err |-> ""], disk, paths, 1)

InitTotalSize ==
    call \in { [fn |-> "CalculateTotalSize", done |-> FALSE, paths |-> ps,
                disk |-> d] :
                 ps \in SeqsUpTo(DiskPool, MaxDeletePaths),
                 d \in {dd \in Disks : ConsistentDisk(dd)} }

CalculateSizes ==
    /\ call.fn = "CalculateTotalSize"
    /\ ~call.done
    /\ call' = [fn |-> "CalculateTotalSize", done |-> TRUE, paths |-> call.paths,
                disk |-> call.disk,
                out |-> CalculateTotalSize(call.paths, call.disk)]
    /\ UNCHANGED notCall

NextTotalSize == CalculateSizes

InitSpecTotalSize ==
    InitSession /\ IdleValidate /\ IdleCheck /\ InitTotalSize /\ IdleRun

SpecTotalSize == InitSpecTotalSize /\ [][NextTotalSize]_vars

\* The positions of the paths whose size can be computed: the path exists
\* and, for a directory, the walk below it reports no error.
Computable ==
    {k \in 1..Len(call.paths) :
        /\ Exists(call.disk, call.paths[k])
        /\ ~call.disk[call.paths[k]].walkErr}

\* C27: the error returned is nil, the total is the sum of the sizes of the
\* paths whose size can be computed, and the inaccessible count is the
\* number of the other paths.
TotalSizeBestEffort ==
    (call.fn = "CalculateTotalSize" /\ call.done) =>
        /\ call.out.err = ""
        /\ call.out.inaccessible = Len(call.paths) - Cardinality(Computable)
        /\ call.out.totalSize =
              SumSeq([k \in 1..Len(call.paths) |->
                         IF k \in Computable
                         THEN GetSizeOn(call.disk, call.paths[k]).size ELSE 0])

\* A missing path first, then a directory whose walk reports an error above
\* a file of 2 bytes, then a file: only the file is counted.
TotalSizeWitness ==
    /\ call.fn = "CalculateTotalSize"
    /\ call.done
    /\ call.paths = <<pathC, pathB, pathA>>
    /\ ~Exists(call.disk, pathC)
    /\ call.disk[pathB] = DirEntry(TRUE)
    /\ call.disk[pathBx] = FileEntry(2)
    /\ call.disk[pathA] = FileEntry(1)
    /\ call.out = [totalSize |-> 1, inaccessible |-> 2, err |-> ""]

-----------------------------------------------------------------------------
\* C28: every path CheckDirectories reports as missing lies within one of
\* the checked directories as ValidateDeletionPaths sees it, so a run never
\* ends with a path found outside the allowed directories.
MissingPathsInScope ==
    (Running /\ cResult.err = "") =>
        /\ \A i \in 1..Len(cResult.MissingPaths) :
              IsAllowed(Abs(cResult.MissingPaths[i]), run.dirs)
        /\ run.valid # "outside"

====
